---- MODULE Spec2Model ----
(***************************************************************************)
(* A model of the New Zealand ocean-map tile pipeline                      *)
(* (src/nz_ocean_map.py and src/nz_sea_temperature_map.py):                *)
(*   - the request-time resolver (get_time_param, get_current_time_param), *)
(*   - the tile fetch loop, the grid assembler and the compositor          *)
(*     (create_map, create_nz_temperature_map, stitch_tiles, add_title),   *)
(*   - the legend description parser (parse_svg_legend) and the legend     *)
(*     renderer's colour interpolation (create_legend_image).              *)
(* Five specifications share the variables: SpecTime, Spec (the pipeline), *)
(* SpecStitch, SpecLegend and SpecRender.                                  *)
(***************************************************************************)
EXTENDS Integers, Sequences, FiniteSets, TLC

VARIABLES
    \* ---- request-time resolver
    tpc,            \* "idle" | "resolved"
    tfunc,          \* which resolver is called
    now,            \* the current instant (UTC), the clock's reading
    days_offset,    \* argument of get_time_param
    hour_offset,    \* argument of get_time_param
    target_utc,     \* target_utc of get_time_param, now_utc of get_current_time_param
    time_out,       \* the resolver's result
    \* ---- the run of a program (main, create_map, create_nz_temperature_map)
    pc,             \* the next step of the run
    program,        \* "nz_ocean_map" | "nz_sea_temperature_map"
    with_title,     \* option of create_map
    with_legend,    \* option of create_map
    coverage,       \* the tile range: row_start, row_end, col_start, col_end
    row,            \* loop variable of the fetch loop
    col,            \* loop variable of the fetch loop
    tile_row,       \* the row of tiles being filled
    tiles_grid,     \* the rows filled so far
    requests,       \* the <<tilerow, tilecol, tile returned>> of each request, in order
    tile_size,      \* argument of stitch_tiles
    pillow_strict,  \* the Pillow installed rejects a box whose y1 < y0
    stitched,       \* the raster stitch_tiles returned
    final_image,    \* the raster being composed
    legend_height,  \* target_height given to the legend parser, 0 for None
    svg_data,       \* the legend server's reply
    legend,         \* what the parser handed to the renderer and returned
    painted_rows,   \* the lines drawn so far on the legend's bar
    output_file,    \* the raster saved
    performed,      \* steps run: "stitch", "title"; legend asked for; save called
    result,         \* how create_map ended
    exit_code       \* the status the process exits with, -1 while running

tvars == <<tpc, tfunc, now, days_offset, hour_offset, target_utc, time_out>>

fvars == <<row, col, tile_row, tiles_grid, requests>>

cvars == <<program, with_title, with_legend, coverage, tile_size, pillow_strict>>

lvars == <<legend_height, svg_data, legend, painted_rows>>

ovars == <<stitched, final_image, output_file, performed, result, exit_code>>

vars == <<tvars, pc, cvars, fvars, lvars, ovars>>

(***************************************************************************)
(* TIME.  An instant is a count of whole hours since 2026-01-01T00:00Z     *)
(* plus the minute, second and microsecond inside that hour.  Every UTC    *)
(* offset of Pacific/Auckland is a whole number of hours, so conversions   *)
(* move the hour count and leave the sub-hour fields alone.                *)
(* An aware datetime is its wall-clock reading (hour count since           *)
(* 2026-01-01T00:00 on the wall clock of its zone), the zone and the fold. *)
(***************************************************************************)

\* Hours each side of a daylight-saving transition from which "now" is drawn.
TimeWindow == 14
\* Largest |days_offset| and |hour_offset| tried.
MaxDayOffset == 1
MaxHourOffset == 2

\* Pacific/Auckland in 2026: daylight time ends 2026-04-04T14:00Z and starts
\* again 2026-09-26T14:00Z (hours since 2026-01-01T00:00Z).
DstEndUtc == 2246
DstStartUtc == 6446
NzdtOffset == 13
NzstOffset == 12

SubHours == { <<0, 0, 0>>, <<59, 59, 999999>>, <<30, 0, 1>> }

Instant(hr, sub) == [hr |-> hr, mi |-> sub[1], s |-> sub[2], us |-> sub[3]]

Datetime(tz, wall, mi, s, us, fold) ==
    [tz |-> tz, wall |-> wall, mi |-> mi, s |-> s, us |-> us, fold |-> fold]

NoDatetime == Datetime("none", 0, 0, 0, 0, 0)

\* The UTC offset in force at a UTC instant (hours).
NzOffsetAtUtc(hr) ==
    IF hr < DstEndUtc THEN NzdtOffset
    ELSE IF hr < DstStartUtc THEN NzstOffset
    ELSE NzdtOffset

\* ZoneInfo.utcoffset of a wall-clock reading: the transition's wall time is
\* its UTC time plus the larger of the two offsets for fold 0 and plus the
\* smaller for fold 1, and the offset is the one after the last transition
\* at or before the reading.
NzOffsetAtWall(wall, fold) ==
    LET shift == IF fold = 0 THEN NzdtOffset ELSE NzstOffset
    IN  IF wall < DstEndUtc + shift THEN NzdtOffset
        ELSE IF wall < DstStartUtc + shift THEN NzstOffset
        ELSE NzdtOffset

UtcOffset(dt) ==
    IF dt.tz = "UTC" THEN 0 ELSE NzOffsetAtWall(dt.wall, dt.fold)

\* tzinfo.dst(): one hour in daylight time, zero otherwise.
Dst(dt) == UtcOffset(dt) - NzstOffset

\* The instant an aware datetime denotes.
InstantOf(dt) ==
    [hr |-> dt.wall - UtcOffset(dt), mi |-> dt.mi, s |-> dt.s, us |-> dt.us]

\* ZoneInfo.fromutc: the second reading of the repeated hour has fold 1.
FromUtcToNz(i) ==
    Datetime("NZ", i.hr + NzOffsetAtUtc(i.hr), i.mi, i.s, i.us,
             IF i.hr = DstEndUtc THEN 1 ELSE 0)

\* datetime.now(nz_tz)
NowNz(i) == FromUtcToNz(i)

\* dt.astimezone(tz)
AsTimezone(dt, tz) ==
    LET i == InstantOf(dt)
    IN  IF tz = "UTC" THEN Datetime("UTC", i.hr, i.mi, i.s, i.us, 0)
        ELSE FromUtcToNz(i)

\* dt + timedelta(days=d, hours=h): wall-clock arithmetic in the datetime's
\* own zone; the result is built afresh, so its fold is 0.
AddTimedelta(dt, d, h) ==
    Datetime(dt.tz, dt.wall + 24 * d + h, dt.mi, dt.s, dt.us, 0)

HourOfDay(wall) == wall % 24
DayOf(wall) == wall \div 24

\* The hour rounded to the nearest multiple of 6 (24 wraps to 0).
RoundedHourBad(hour) == ((hour + 3) \div 6) * 6 % 24
\* rounded_hour = (hour // 6) * 6
RoundedHour(hour) == (hour \div 6) * 6

\* dt.replace(hour=rounded_hour, minute=0, second=0, microsecond=0)
ReplaceHour(dt, hour) ==
    Datetime(dt.tz, DayOf(dt.wall) * 24 + hour, 0, 0, 0, dt.fold)

\* strftime('%Y-%m-%dT%H:%M:%S.000Z'): the date, hour, minute and second of
\* the datetime's own fields; the milliseconds and the zone letter are
\* literal text, the microsecond field is not printed.
IsoString(dt) ==
    [date |-> DayOf(dt.wall), hour |-> HourOfDay(dt.wall),
     minute |-> dt.mi, second |-> dt.s, millis |-> 0, zone |-> "Z"]

\* The instant an ISO string with the zone letter Z denotes.
InstantOfIso(str) ==
    [hr |-> str.date * 24 + str.hour, mi |-> str.minute, s |-> str.second,
     us |-> str.millis * 1000]

\* strftime('%Y-%m-%d %H:%M NZDT' if time_nz.dst() else '%Y-%m-%d %H:%M NZST')
TimeDisplay(dt) ==
    [date |-> DayOf(dt.wall), hour |-> HourOfDay(dt.wall), minute |-> dt.mi,
     zone |-> IF Dst(dt) # 0 THEN "NZDT" ELSE "NZST"]

\* The instant a display string denotes (to the minute).
InstantOfDisplay(str) ==
    [hr |-> str.date * 24 + str.hour
            - (IF str.zone = "NZDT" THEN NzdtOffset ELSE NzstOffset),
     mi |-> str.minute, s |-> 0, us |-> 0]

\* target_utc of get_time_param
TargetUtc(i, d, h) == AsTimezone(AddTimedelta(NowNz(i), d, h), "UTC")

\* time_rounded_nz computed by flooring the regional hour on its own
TimeRoundedNzBad(rounded_utc, target) ==
    LET t == AsTimezone(target, "NZ")
    IN  ReplaceHour(t, RoundedHour(HourOfDay(t.wall)))
\* time_rounded_nz = time_rounded_utc.astimezone(nz_tz)
TimeRoundedNz(rounded_utc, target) == AsTimezone(rounded_utc, "NZ")

\* get_time_param(days_offset, hour_offset) at the instant i
get_time_param(i, d, h) ==
    LET t == TargetUtc(i, d, h)
        time_rounded_utc == ReplaceHour(t, RoundedHour(HourOfDay(t.wall)))
    IN  [utc |-> IsoString(time_rounded_utc),
         nz |-> TimeRoundedNz(time_rounded_utc, t)]

\* get_current_time_param() at the instant i
get_current_time_param(i) ==
    LET now_utc == AsTimezone(NowNz(i), "UTC")
        time_rounded == ReplaceHour(now_utc, RoundedHour(HourOfDay(now_utc.wall)))
    IN  [utc |-> IsoString(time_rounded), nz |-> NoDatetime]

NowHours ==
    (DstEndUtc - TimeWindow .. DstEndUtc + TimeWindow)
        \cup (DstStartUtc - TimeWindow .. DstStartUtc + TimeWindow)

NoTimeOut == [utc |-> IsoString(NoDatetime), nz |-> NoDatetime]

TimeIdle ==
    /\ tpc = "off"
    /\ tfunc = "none"
    /\ now = Instant(0, <<0, 0, 0>>)
    /\ days_offset = 0
    /\ hour_offset = 0
    /\ target_utc = NoDatetime
    /\ time_out = NoTimeOut

(***************************************************************************)
(* NUMBERS.  Python's float is the IEEE-754 double.  A double is modelled   *)
(* as its sign s (-1, 0, 1), its 53-bit significand m and its exponent e,   *)
(* the value being s * m * 2^e; every operation computes the exact result   *)
(* and rounds it to nearest, ties to even, as the hardware does.  The       *)
(* significand is wider than TLC's integers, so it is a natural number      *)
(* written in base 2^15, least significant limb first, <<>> being zero.     *)
(* Overflow, underflow to subnormals, infinities and NaN are outside the    *)
(* values the model feeds in.                                               *)
(***************************************************************************)

LimbBits == 15
LimbBase == 32768
MantBits == 53
\* Limbs of quotient a division computes before rounding.
QuotientLimbs == 4

Limb(a, i) == IF i <= Len(a) THEN a[i] ELSE 0

RECURSIVE BNorm(_)
BNorm(a) ==
    IF a = <<>> THEN <<>>
    ELSE IF a[Len(a)] = 0 THEN BNorm(SubSeq(a, 1, Len(a) - 1))
    ELSE a

RECURSIVE BFromInt(_)
BFromInt(n) ==
    IF n = 0 THEN <<>> ELSE <<n % LimbBase>> \o BFromInt(n \div LimbBase)

RECURSIVE BToIntFrom(_, _)
BToIntFrom(a, i) ==
    IF i > Len(a) THEN 0 ELSE a[i] + LimbBase * BToIntFrom(a, i + 1)
BToInt(a) == BToIntFrom(a, 1)

RECURSIVE BCmpAt(_, _, _)
BCmpAt(a, b, i) ==
    IF i = 0 THEN 0
    ELSE IF a[i] < b[i] THEN -1
    ELSE IF a[i] > b[i] THEN 1
    ELSE BCmpAt(a, b, i - 1)
\* -1, 0, 1 as a < b, a = b, a > b (both normalised)
BCmp(a, b) ==
    IF Len(a) < Len(b) THEN -1
    ELSE IF Len(a) > Len(b) THEN 1
    ELSE BCmpAt(a, b, Len(a))

RECURSIVE BAddFrom(_, _, _, _)
BAddFrom(a, b, i, c) ==
    IF i > Len(a) /\ i > Len(b)
    THEN (IF c = 0 THEN <<>> ELSE <<c>>)
    ELSE LET t == Limb(a, i) + Limb(b, i) + c
         IN  <<t % LimbBase>> \o BAddFrom(a, b, i + 1, t \div LimbBase)
BAdd(a, b) == BAddFrom(a, b, 1, 0)

RECURSIVE BSubFrom(_, _, _, _)
BSubFrom(a, b, i, c) ==
    IF i > Len(a) THEN <<>>
    ELSE LET t == a[i] - Limb(b, i) - c
         IN  <<t % LimbBase>> \o BSubFrom(a, b, i + 1, IF t < 0 THEN 1 ELSE 0)
\* a - b for a >= b
BSub(a, b) == BNorm(BSubFrom(a, b, 1, 0))

RECURSIVE BMulSmallFrom(_, _, _, _)
BMulSmallFrom(a, k, i, c) ==
    IF i > Len(a) THEN (IF c = 0 THEN <<>> ELSE <<c>>)
    ELSE LET t == a[i] * k + c
         IN  <<t % LimbBase>> \o BMulSmallFrom(a, k, i + 1, t \div LimbBase)
\* a * k for 0 <= k < LimbBase
BMulSmall(a, k) == IF k = 0 THEN <<>> ELSE BMulSmallFrom(a, k, 1, 0)

BShlLimbs(a, n) ==
    IF a = <<>> THEN <<>>
    ELSE [i \in 1 .. Len(a) + n |-> IF i <= n THEN 0 ELSE a[i - n]]

RECURSIVE BMulFrom(_, _, _)
BMulFrom(a, b, j) ==
    IF j > Len(b) THEN <<>>
    ELSE BAdd(BShlLimbs(BMulSmall(a, b[j]), j - 1), BMulFrom(a, b, j + 1))
BMul(a, b) == BMulFrom(a, b, 1)

\* a * 2^n
BShl(a, n) == BShlLimbs(BMulSmall(a, 2 ^ (n % LimbBits)), n \div LimbBits)

BDropLimbs(a, n) == IF n >= Len(a) THEN <<>> ELSE SubSeq(a, n + 1, Len(a))

BShrBits(a, r) ==
    BNorm([i \in 1 .. Len(a) |->
              (a[i] \div 2 ^ r) + (Limb(a, i + 1) % 2 ^ r) * 2 ^ (LimbBits - r)])
\* floor(a / 2^n)
BShr(a, n) == BShrBits(BDropLimbs(a, n \div LimbBits), n % LimbBits)

RECURSIVE BitLenSmall(_)
BitLenSmall(x) == IF x = 0 THEN 0 ELSE 1 + BitLenSmall(x \div 2)
BBitLen(a) ==
    IF a = <<>> THEN 0 ELSE LimbBits * (Len(a) - 1) + BitLenSmall(a[Len(a)])

BIsOdd(a) == a # <<>> /\ a[1] % 2 = 1

\* One more quotient limb while rem >= d.
RECURSIVE BDivFix(_, _, _)
BDivFix(rem, d, q) ==
    IF BCmp(rem, d) >= 0 THEN BDivFix(BSub(rem, d), d, q + 1) ELSE <<q, rem>>

\* One limb of long division: for r < d, with the top limb of d at least
\* half the base, <<floor(r * base / d), the remainder>>.  The limb is first
\* estimated from the two top limbs of r * base and the top limb of d (never
\* too high), then corrected.
BDivLimb(r, d) ==
    LET rb == IF r = <<>> THEN <<>> ELSE <<0>> \o r
        qhat == (Limb(rb, Len(d) + 1) * LimbBase + Limb(rb, Len(d)))
                    \div (d[Len(d)] + 1)
    IN  BDivFix(BSub(rb, BMulSmall(d, qhat)), d, qhat)

\* steps limbs of the quotient of r / d below the point, most significant
\* first, for r < d: <<floor(r * base^steps / d), the remainder>>; q holds
\* the limbs computed so far.
RECURSIVE BDivFrac(_, _, _, _)
BDivFrac(r, d, steps, q) ==
    IF steps = 0 \/ Len(q) < 0 THEN <<BNorm(q), r>>
    ELSE LET qr == BDivLimb(r, d)
         IN  BDivFrac(qr[2], d, steps - 1, <<qr[1]>> \o q)

FZero == [s |-> 0, m |-> <<>>, e |-> 0]

\* n * 2^e with n of at most MantBits bits: shift the significand up.
FNormal(s, n, e) ==
    LET up == MantBits - BBitLen(n)
    IN  [s |-> s, m |-> BShl(n, up), e |-> e - up]

\* The significand q (exactly MantBits bits, or one more after a carry).
FCarry(s, q, e) ==
    IF BBitLen(q) > MantBits THEN [s |-> s, m |-> BShr(q, 1), e |-> e + 1]
    ELSE [s |-> s, m |-> q, e |-> e]

\* Round to nearest, ties to even: q the top MantBits bits, c the comparison
\* of the dropped part with one half (-1 below, 0 exactly half, 1 above).
FRoundUp(q, c) == c > 0 \/ (c = 0 /\ BIsOdd(q))

FRoundShift(s, n, e, sh, sticky) ==
    LET q == BShr(n, sh)
        c == BCmp(BSub(n, BShl(q, sh)), BShl(<<1>>, sh - 1))
    IN  FCarry(s,
               IF FRoundUp(q, IF c = 0 /\ sticky THEN 1 ELSE c)
               THEN BAdd(q, <<1>>)
               ELSE q,
               e + sh)

\* The double nearest to s * (n + t) * 2^e, where 0 < t < 1 when sticky and
\* t = 0 otherwise (a sticky n has more than MantBits bits).
FRound(s, n, e, sticky) ==
    IF n = <<>> THEN FZero
    ELSE IF BBitLen(n) <= MantBits THEN FNormal(s, n, e)
    ELSE FRoundShift(s, n, e, BBitLen(n) - MantBits, sticky)

\* float(n) of an integer n
FFromInt(n) ==
    IF n = 0 THEN FZero
    ELSE IF n > 0 THEN FRound(1, BFromInt(n), 0, FALSE)
    ELSE FRound(-1, BFromInt(-n), 0, FALSE)

FNeg(a) == [s |-> -a.s, m |-> a.m, e |-> a.e]

FMinE(a, b) == IF a.e < b.e THEN a.e ELSE b.e

\* The exact sum of two significands brought to the common exponent e0.
FAddAligned(sa, na, sb, nb, e0) ==
    LET c == BCmp(na, nb)
    IN  IF sa = sb THEN FRound(sa, BAdd(na, nb), e0, FALSE)
        ELSE IF c = 0 THEN FZero
        ELSE IF c > 0 THEN FRound(sa, BSub(na, nb), e0, FALSE)
        ELSE FRound(sb, BSub(nb, na), e0, FALSE)

\* a + b
FAdd(a, b) ==
    IF a.s = 0 THEN b
    ELSE IF b.s = 0 THEN a
    ELSE FAddAligned(a.s, BShl(a.m, a.e - FMinE(a, b)),
                     b.s, BShl(b.m, b.e - FMinE(a, b)), FMinE(a, b))

\* a - b
FSub(a, b) == FAdd(a, FNeg(b))

\* a * b
FMul(a, b) ==
    IF a.s = 0 \/ b.s = 0 THEN FZero
    ELSE FRound(a.s * b.s, BMul(a.m, b.m), a.e + b.e, FALSE)

FQuotient(s, qr, e) == FRound(s, qr[1], e, qr[2] # <<>>)

\* The next multiple of LimbBits at or above n.
LimbCeil(n) == ((n + LimbBits - 1) \div LimbBits) * LimbBits

\* The double nearest to s * (n / d) * 2^e for naturals n, d > 0.  d is
\* shifted up until its length is a whole number of limbs and exceeds the
\* length of n, n is shifted up to one bit less, and QuotientLimbs limbs of
\* n / d are computed, which is more than MantBits bits.
FDivNat(s, n, d, e) ==
    LET dbits == LimbCeil(IF BBitLen(n) + 1 > BBitLen(d)
                          THEN BBitLen(n) + 1 ELSE BBitLen(d))
        up_d == dbits - BBitLen(d)
        up_n == dbits - 1 - BBitLen(n)
    IN  FQuotient(s,
                  BDivFrac(BShl(n, up_n), BShl(d, up_d), QuotientLimbs, <<>>),
                  e + up_d - up_n - QuotientLimbs * LimbBits)

\* a / b for b # 0
FDiv(a, b) ==
    IF a.s = 0 THEN FZero ELSE FDivNat(a.s * b.s, a.m, b.m, a.e - b.e)

\* -1, 0, 1 as |a| < |b|, |a| = |b|, |a| > |b| for non-zero doubles
FCmpAbs(a, b) ==
    IF a.e < b.e THEN -1
    ELSE IF a.e > b.e THEN 1
    ELSE BCmp(a.m, b.m)

\* -1, 0, 1 as a < b, a = b, a > b
FCmp(a, b) ==
    IF a.s # b.s THEN (IF a.s < b.s THEN -1 ELSE 1)
    ELSE IF a.s = 0 THEN 0
    ELSE a.s * FCmpAbs(a, b)

FLe(a, b) == FCmp(a, b) <= 0
FEq(a, b) == FCmp(a, b) = 0

\* int(a): truncation toward zero
FTrunc(a) ==
    IF a.s = 0 THEN 0
    ELSE IF a.e >= 0 THEN a.s * BToInt(BShl(a.m, a.e))
    ELSE a.s * BToInt(BShr(a.m, -a.e))

(***************************************************************************)
(* TEXT.  A string is a sequence of one-character strings.  The conversions *)
(* below follow Python's on the characters the model's documents use:       *)
(* digits, '.', '+', '-', '%', the space, and the letters and punctuation   *)
(* of "rgb(,)", "rgba", "px", "#" and "C" (no exponent letter, no           *)
(* underscore, no "inf" or "nan").                                          *)
(***************************************************************************)

DigitChars == <<"0", "1", "2", "3", "4", "5", "6", "7", "8", "9">>
IsDigit(c) == \E i \in 1 .. 10 : DigitChars[i] = c
DigitVal(c) == (CHOOSE i \in 1 .. 10 : DigitChars[i] = c) - 1
IsSpace(c) == c = " "

CharAt(str, i) == IF 1 <= i /\ i <= Len(str) THEN str[i] ELSE ""

\* str.rstrip(ch)
RECURSIVE RStrip(_, _)
RStrip(str, ch) ==
    IF str # <<>> /\ str[Len(str)] = ch
    THEN RStrip(SubSeq(str, 1, Len(str) - 1), ch)
    ELSE str

RECURSIVE LStrip(_, _)
LStrip(str, ch) ==
    IF str # <<>> /\ str[1] = ch THEN LStrip(Tail(str), ch) ELSE str

\* str.strip()
Strip(str) == LStrip(RStrip(str, " "), " ")

\* str.startswith(prefix)
StartsWith(str, prefix) ==
    Len(str) >= Len(prefix) /\ SubSeq(str, 1, Len(prefix)) = prefix

\* The index after the longest run of digits that starts at i (\d+ or \d*).
RECURSIVE DigitsEnd(_, _)
DigitsEnd(str, i) ==
    IF IsDigit(CharAt(str, i)) THEN DigitsEnd(str, i + 1) ELSE i

\* The index after the longest run of spaces that starts at i (\s*).
RECURSIVE SpacesEnd(_, _)
SpacesEnd(str, i) ==
    IF IsSpace(CharAt(str, i)) THEN SpacesEnd(str, i + 1) ELSE i

\* The number the digits str[i .. j-1] write.
RECURSIVE NatOfDigits(_, _, _)
NatOfDigits(str, i, j) ==
    IF j <= i THEN 0
    ELSE NatOfDigits(str, i, j - 1) * 10 + DigitVal(str[j - 1])

RECURSIVE BigOfDigits(_, _, _)
BigOfDigits(str, i, j) ==
    IF j <= i THEN <<>>
    ELSE BAdd(BMulSmall(BigOfDigits(str, i, j - 1), 10),
              BFromInt(DigitVal(str[j - 1])))

RECURSIVE BPow10(_)
BPow10(k) == IF k = 0 THEN <<1>> ELSE BMulSmall(BPow10(k - 1), 10)

SignEnd(str, i) == IF CharAt(str, i) \in {"+", "-"} THEN i + 1 ELSE i
SignOf(str, i) == IF CharAt(str, i) = "-" THEN -1 ELSE 1

\* int(str): optional spaces, optional sign, one digit at least, optional
\* spaces, nothing more.  [ok, val]; not ok is ValueError.
IntOfStripped(t) ==
    LET p == SignEnd(t, 1)
    IN  IF p <= Len(t) /\ DigitsEnd(t, p) = Len(t) + 1
        THEN [ok |-> TRUE, val |-> SignOf(t, 1) * NatOfDigits(t, p, Len(t) + 1)]
        ELSE [ok |-> FALSE, val |-> 0]
PyInt(str) == IntOfStripped(Strip(str))

\* The double nearest to the decimal whose integer digits are t[p .. d-1] and
\* whose fraction digits are t[d+1 .. n-1] (d = n: no point).
FloatOfDecimal(sign, t, p, d, n) ==
    LET ipart == BigOfDigits(t, p, d)
        fpart == BigOfDigits(t, d + 1, n)
        k == IF d < n THEN n - d - 1 ELSE 0
        num == BNorm(BAdd(BMul(ipart, BPow10(k)), fpart))
    IN  IF num = <<>> THEN FZero
        ELSE FDivNat(sign, num, BPow10(k), 0)

\* float(str): optional spaces, optional sign, digits with an optional point
\* (one digit at least), optional spaces.  [ok, val]; not ok is ValueError.
\* The strings drawn by the specifications below hold digits, signs, points,
\* spaces and letters other than e, E; exponents, underscores, "inf" and
\* "nan", which float() also reads, are outside this operator's domain.
FloatOfStripped(t) ==
    LET p == SignEnd(t, 1)
        d == DigitsEnd(t, p)
        n == IF CharAt(t, d) = "." THEN DigitsEnd(t, d + 1) ELSE d
        ndigits == (d - p) + (IF n > d THEN n - d - 1 ELSE 0)
    IN  IF n = Len(t) + 1 /\ ndigits > 0
        THEN [ok |-> TRUE, val |-> FloatOfDecimal(SignOf(t, 1), t, p, d, n)]
        ELSE [ok |-> FALSE, val |-> FZero]
PyFloat(str) == FloatOfStripped(Strip(str))

\* re.match(r'rgb\((\d+),\s*(\d+),\s*(\d+)\)', str): a match at the start
\* of the string, whatever follows it.  [ok, rgb].
NoRgb == [ok |-> FALSE, rgb |-> <<0, 0, 0>>]
MatchRgb(str) ==
    LET p1 == 5
        e1 == DigitsEnd(str, p1)
        p2 == SpacesEnd(str, e1 + 1)
        e2 == DigitsEnd(str, p2)
        p3 == SpacesEnd(str, e2 + 1)
        e3 == DigitsEnd(str, p3)
    IN  IF /\ StartsWith(str, <<"r", "g", "b", "(">>)
           /\ e1 > p1 /\ CharAt(str, e1) = ","
           /\ e2 > p2 /\ CharAt(str, e2) = ","
           /\ e3 > p3 /\ CharAt(str, e3) = ")"
        THEN [ok |-> TRUE,
              rgb |-> <<NatOfDigits(str, p1, e1), NatOfDigits(str, p2, e2),
                        NatOfDigits(str, p3, e3)>>]
        ELSE NoRgb

\* The first index at or after i whose character is in the class, or
\* Len(str) + 1.
RECURSIVE FindClass(_, _, _)
FindClass(str, i, class) ==
    IF i > Len(str) \/ str[i] \in class THEN i ELSE FindClass(str, i + 1, class)

RECURSIVE ClassEnd(_, _, _)
ClassEnd(str, i, class) ==
    IF CharAt(str, i) \in class THEN ClassEnd(str, i + 1, class) ELSE i

\* re.search(r'([...]+)', str) for a character class: [ok, group].
SearchClass(str, class) ==
    LET b == FindClass(str, 1, class)
    IN  IF b > Len(str) THEN [ok |-> FALSE, group |-> <<>>]
        ELSE [ok |-> TRUE, group |-> SubSeq(str, b, ClassEnd(str, b, class) - 1)]

DigitSet == { DigitChars[i] : i \in 1 .. 10 }
\* [-\d.] of nz_ocean_map.py and [\d.] of nz_sea_temperature_map.py
NumberClass(prog) ==
    IF prog = "nz_ocean_map" THEN DigitSet \cup {"-", "."}
    ELSE DigitSet \cup {"."}

(***************************************************************************)
(* THE LEGEND DOCUMENT.  ET.fromstring either fails (the document is not    *)
(* well formed) or yields a tree; of the tree the parser reads the root's   *)
(* width and height attributes, the stop elements and the text elements,    *)
(* in document order.  A stop records whether its tag is in the SVG         *)
(* namespace and whether its parent is a namespaced linearGradient; a text  *)
(* records whether its tag is namespaced and its concatenated text content. *)
(***************************************************************************)

Attr(str) == [has |-> TRUE, str |-> str]
NoAttr == [has |-> FALSE, str |-> <<>>]

StopElement(ns, in_gradient, color, offset) ==
    [ns |-> ns, in_gradient |-> in_gradient, color |-> color, offset |-> offset]
TextElement(ns, y, text) == [ns |-> ns, y |-> y, text |-> text]
Document(wellformed, width, height, stops, texts) ==
    [wellformed |-> wellformed, width |-> width, height |-> height,
     stops |-> stops, texts |-> texts]

IsGradientStop(e) == e.ns /\ e.in_gradient
IsPlain(e) == ~e.ns
IsNamespaced(e) == e.ns

\* root.findall('.//svg:linearGradient/svg:stop', ns), or, when that finds
\* nothing, root.findall('.//stop')
FindStops(doc) ==
    IF SelectSeq(doc.stops, IsGradientStop) # <<>>
    THEN SelectSeq(doc.stops, IsGradientStop)
    ELSE SelectSeq(doc.stops, IsPlain)

\* root.findall('.//svg:text', ns), or, when that finds nothing,
\* root.findall('.//text')
FindTexts(doc) ==
    IF SelectSeq(doc.texts, IsNamespaced) # <<>>
    THEN SelectSeq(doc.texts, IsNamespaced)
    ELSE SelectSeq(doc.texts, IsPlain)

\* int(root.get(name, default)): the default is already an integer.
RootDimension(attr, default) ==
    IF attr.has THEN PyInt(attr.str) ELSE [ok |-> TRUE, val |-> default]

DefaultWidth == 125
DefaultHeight == 300

\* stop.get('offset', '0%').rstrip('%')
OffsetText(stop) ==
    RStrip(IF stop.offset.has THEN stop.offset.str ELSE <<"0", "%">>, "%")

\* if stop_color and stop_color.startswith('rgb'), and the pattern matches
StopAccepted(stop) ==
    /\ stop.color.has
    /\ stop.color.str # <<>>
    /\ StartsWith(stop.color.str, <<"r", "g", "b">>)
    /\ MatchRgb(stop.color.str).ok

\* One turn of the loop over the stops: an accepted stop is appended as
\* (offset_val, (r, g, b)); float(offset) may raise.
StopStep(acc, stop) ==
    LET offset_val == PyFloat(OffsetText(stop))
    IN  IF ~acc.ok THEN acc
        ELSE IF ~StopAccepted(stop) THEN acc
        ELSE IF ~offset_val.ok THEN [ok |-> FALSE, list |-> <<>>]
        ELSE [ok |-> TRUE,
              list |-> Append(acc.list,
                              <<offset_val.val, MatchRgb(stop.color.str).rgb>>)]

RECURSIVE StopLoop(_, _)
StopLoop(stops, n) ==
    IF n = 0 THEN [ok |-> TRUE, list |-> <<>>]
    ELSE StopStep(StopLoop(stops, n - 1), stops[n])

\* float(text.get('y', 0))
TextY(text) ==
    IF text.y.has THEN PyFloat(text.y.str) ELSE [ok |-> TRUE, val |-> FZero]

\* A loop over the texts that drops the element whose y is no number and
\* goes on with the rest.
TextStepSkip(acc, text) ==
    LET y == TextY(text)
        label_text == Strip(text.text)
    IN  IF ~acc.ok THEN acc
        ELSE IF ~y.ok THEN acc
        ELSE IF label_text = <<>> THEN acc
        ELSE [ok |-> TRUE, list |-> Append(acc.list, <<y.val, label_text>>)]

\* One turn of the loop over the texts: y is converted first, then the text
\* is trimmed and kept when something is left.
TextStep(acc, text) ==
    LET y == TextY(text)
        label_text == Strip(text.text)
    IN  IF ~acc.ok THEN acc
        ELSE IF ~y.ok THEN [ok |-> FALSE, list |-> <<>>]
        ELSE IF label_text = <<>> THEN acc
        ELSE [ok |-> TRUE, list |-> Append(acc.list, <<y.val, label_text>>)]

RECURSIVE TextLoop(_, _)
TextLoop(texts, n) ==
    IF n = 0 THEN [ok |-> TRUE, list |-> <<>>]
    ELSE TextStep(TextLoop(texts, n - 1), texts[n])

\* The place before the first item whose key is not below x's.
RECURSIVE InsertAtBad(_, _, _)
InsertAtBad(sorted, x, i) ==
    IF i > Len(sorted) \/ FCmp(sorted[i][1], x[1]) >= 0 THEN i
    ELSE InsertAtBad(sorted, x, i + 1)

\* The index at which x goes into a list sorted by its first component:
\* after every entry whose key is not greater.
RECURSIVE InsertAt(_, _, _)
InsertAt(sorted, x, i) ==
    IF i > Len(sorted) \/ FCmp(sorted[i][1], x[1]) > 0 THEN i
    ELSE InsertAt(sorted, x, i + 1)

InsertSorted(sorted, x) ==
    LET i == InsertAt(sorted, x, 1)
    IN  SubSeq(sorted, 1, i - 1) \o <<x>> \o SubSeq(sorted, i, Len(sorted))

RECURSIVE SortedPrefix(_, _)
SortedPrefix(list, n) ==
    IF n = 0 THEN <<>> ELSE InsertSorted(SortedPrefix(list, n - 1), list[n])

\* The list left in document order
UnsortedByKey(list) == list
\* list.sort(key=lambda x: x[0]): ascending, equal keys in their old order
SortByKey(list) == SortedPrefix(list, Len(list))

(***************************************************************************)
(* THE LEGEND RENDERER (create_legend_image).                              *)
(***************************************************************************)

Padding == 40
LabelWidth == 120
BarWidth == 60
\* total_width = padding + bar_width + padding + label_width + padding
TotalWidth(bar_width) == Padding + bar_width + Padding + LabelWidth + Padding
BarYStart == Padding * 2
BarYEnd(target_height) == target_height - Padding * 2
BarHeightOf(target_height) == BarYEnd(target_height) - BarYStart

\* offset / 100
Percent(offset) == FDiv(offset, FFromInt(100))

\* if offset1 / 100 <= ratio <= offset2 / 100
PairMatches(ratio, offset1, offset2) ==
    FLe(Percent(offset1), ratio) /\ FLe(ratio, Percent(offset2))

\* The last pair that holds the ratio: an inner loop without its break, in
\* which a later pair draws over an earlier one.
RECURSIVE LastPair(_, _, _)
LastPair(colors, ratio, i) ==
    IF i > Len(colors) - 1 THEN 0
    ELSE LET later == LastPair(colors, ratio, i + 1)
         IN  IF later # 0 THEN later
             ELSE IF PairMatches(ratio, colors[i][1], colors[i + 1][1]) THEN i
             ELSE 0

\* The first i in i0 .. len(colors) - 1 whose pair (colors[i], colors[i+1])
\* holds the ratio, or 0 when the inner loop ends without a break.
RECURSIVE FirstPair(_, _, _)
FirstPair(colors, ratio, i) ==
    IF i > Len(colors) - 1 THEN 0
    ELSE IF PairMatches(ratio, colors[i][1], colors[i + 1][1]) THEN i
    ELSE FirstPair(colors, ratio, i + 1)

\* blend = (ratio - offset1 / 100) / ((offset2 - offset1) / 100)
Blend(ratio, offset1, offset2) ==
    FDiv(FSub(ratio, Percent(offset1)), Percent(FSub(offset2, offset1)))

\* int(c1 * (1 - blend) + c2 * blend)
Channel(c1, c2, blend) ==
    FTrunc(FAdd(FMul(FFromInt(c1), FSub(FFromInt(1), blend)),
                FMul(FFromInt(c2), blend)))

\* The colour of the pair: blend is the integer 0 when the offsets are
\* equal, and then c1 * (1 - 0) + c2 * 0 is the integer c1.
PairColor(ratio, stop1, stop2) ==
    LET blend == Blend(ratio, stop1[1], stop2[1])
    IN  IF FEq(stop2[1], stop1[1]) THEN stop1[2]
        ELSE [k \in 1 .. 3 |-> Channel(stop1[2][k], stop2[2][k], blend)]

Unpainted == [painted |-> FALSE, pair |-> 0, rgb |-> <<255, 255, 255>>]

\* A renderer that falls back to the first colour of its stop list, or to
\* black, on a row that no pair holds.
RowOfPairFallback(colors, ratio, i) ==
    IF i = 0
    THEN [painted |-> TRUE, pair |-> 0,
          rgb |-> IF colors = <<>> THEN <<0, 0, 0>> ELSE colors[1][2]]
    ELSE [painted |-> TRUE, pair |-> i,
          rgb |-> PairColor(ratio, colors[i], colors[i + 1])]

RowOfPair(colors, ratio, i) ==
    IF i = 0 THEN Unpainted
    ELSE [painted |-> TRUE, pair |-> i,
          rgb |-> PairColor(ratio, colors[i], colors[i + 1])]

\* One turn of "for y in range(bar_height)": ratio = y / bar_height, and the
\* line drawn for the first pair that holds it (none: the row keeps the
\* white the panel was created with).
RowColor(colors, y, bar_height) ==
    LET ratio == FDiv(FFromInt(y), FFromInt(bar_height))
    IN  RowOfPair(colors, ratio, FirstPair(colors, ratio, 1))

\* draw.rectangle([bar_x, bar_y_start, bar_x + bar_width, bar_y_end],
\* outline='black', width=2): the lines of the outline.
BorderWidth == 2

\* A row of the bar after the border is drawn over the gradient.  The
\* outline's horizontal lines lie on the image rows bar_y_start + i and
\* bar_y_end - i (i < width), over the whole width of the bar: the bar rows
\* 0 and 1 and the last one, bar_y_end itself being the row below the bar.
\* Its vertical lines lie on the columns bar_x + i and bar_x + bar_width - i
\* of the rows between.  rgb is the colour of the row between its edge
\* columns, edge the colour of those columns.
Bordered(line, y, bar_height) ==
    [painted |-> line.painted,
     pair |-> line.pair,
     rgb |-> IF y < BorderWidth \/ y > bar_height - BorderWidth
             THEN <<0, 0, 0>> ELSE line.rgb,
     edge |-> <<0, 0, 0>>]

\* One turn of the loop over the labels: the first run of the number class
\* is converted with float(), which may raise.
ValueStep(acc, label, prog) ==
    LET match == SearchClass(label[2], NumberClass(prog))
        value == PyFloat(match.group)
    IN  IF ~acc.ok THEN acc
        ELSE IF ~match.ok THEN acc
        ELSE IF ~value.ok THEN [ok |-> FALSE, list |-> <<>>]
        ELSE [ok |-> TRUE, list |-> Append(acc.list, value.val)]

RECURSIVE ValueLoop(_, _, _)
ValueLoop(labels, n, prog) ==
    IF n = 0 THEN [ok |-> TRUE, list |-> <<>>]
    ELSE ValueStep(ValueLoop(labels, n - 1, prog), labels[n], prog)

\* min(values), max(values)
RECURSIVE FMinOf(_, _)
FMinOf(values, n) ==
    IF n = 1 THEN values[1]
    ELSE LET rest == FMinOf(values, n - 1)
         IN  IF FCmp(values[n], rest) < 0 THEN values[n] ELSE rest
RECURSIVE FMaxOf(_, _)
FMaxOf(values, n) ==
    IF n = 1 THEN values[1]
    ELSE LET rest == FMaxOf(values, n - 1)
         IN  IF FCmp(values[n], rest) > 0 THEN values[n] ELSE rest

NoCaptions == [has |-> FALSE, max |-> FZero, mid |-> FZero, min |-> FZero]

\* The three captions: max, (max + min) / 2, min.
Captions(values) ==
    LET min_val == FMinOf(values, Len(values))
        max_val == FMaxOf(values, Len(values))
    IN  IF values = <<>> THEN NoCaptions
        ELSE [has |-> TRUE,
              max |-> max_val,
              mid |-> FDiv(FAdd(max_val, min_val), FFromInt(2)),
              min |-> min_val]

NoPanel ==
    [ok |-> FALSE, width |-> 0, height |-> 0, bar_height |-> 0,
     colors |-> <<>>, border |-> 0, captions |-> NoCaptions]

\* draw.rectangle([bar_x, bar_y_start, bar_x + bar_width, bar_y_end]): a
\* Pillow from release 9.5.0 on raises ValueError when bar_y_end is less
\* than bar_y_start, an older one accepts the box (the bar has no row
\* then).  The repository names no release, so strict is whichever is
\* installed.
BorderRaises(target_height, strict) ==
    strict /\ BarYEnd(target_height) < BarYStart

\* create_legend_image(colors, labels, target_height): the panel, or not ok
\* when Image.new (a negative height), the border's rectangle or float() on
\* a label raises.  The panel keeps the stop list, the bar height and the
\* width of the black border drawn over the bar; BarRow gives each row of
\* its bar.
create_legend_image(colors, labels, target_height, prog, strict) ==
    LET values == ValueLoop(labels, Len(labels), prog)
    IN  IF target_height < 0 THEN NoPanel
        ELSE IF BorderRaises(target_height, strict) THEN NoPanel
        ELSE IF ~values.ok THEN NoPanel
        ELSE [ok |-> TRUE,
              width |-> TotalWidth(BarWidth),
              height |-> target_height,
              bar_height |-> BarHeightOf(target_height),
              colors |-> colors,
              border |-> BorderWidth,
              captions |-> Captions(values.list)]

\* The row y of the bar of the panel returned: the line the gradient loop
\* drew on it (or the white it left), under the border.
BarRow(panel, y) ==
    Bordered(RowColor(panel.colors, y, panel.bar_height), y, panel.bar_height)

(***************************************************************************)
(* THE LEGEND PARSER (parse_svg_legend).  The result records what was      *)
(* handed to create_legend_image (called, colors, labels) and the value    *)
(* returned (img; not img.ok is None).                                     *)
(***************************************************************************)

NoLegend ==
    [called |-> FALSE, colors |-> <<>>, labels |-> <<>>, img |-> NoPanel]

\* target_height if target_height else height
PanelHeight(target_height, height) ==
    IF target_height # 0 THEN target_height ELSE height

parse_svg_legend(doc, target_height, prog, strict) ==
    LET width == RootDimension(doc.width, DefaultWidth)
        height == RootDimension(doc.height, DefaultHeight)
        stops == FindStops(doc)
        colors == StopLoop(stops, Len(stops))
        texts == FindTexts(doc)
        labels == TextLoop(texts, Len(texts))
        sorted_colors == SortByKey(colors.list)
        sorted_labels == SortByKey(labels.list)
    IN  IF ~doc.wellformed THEN NoLegend
        ELSE IF ~width.ok \/ ~height.ok THEN NoLegend
        ELSE IF ~colors.ok THEN NoLegend
        ELSE IF ~labels.ok THEN NoLegend
        ELSE [called |-> TRUE,
              colors |-> sorted_colors,
              labels |-> sorted_labels,
              img |-> create_legend_image(
                         sorted_colors, sorted_labels,
                         PanelHeight(target_height, height.val), prog, strict)]

(***************************************************************************)
(* RASTERS.  A raster is its size and the list of the pastes made into it, *)
(* oldest first; a pixel shows the newest paste that covers it, or the     *)
(* fill the raster was created with.  A paste keeps the source's size:     *)
(* what falls outside the canvas is clipped.                               *)
(***************************************************************************)

NoImage == [ok |-> FALSE, width |-> 0, height |-> 0, parts |-> <<>>]

\* Image.new('RGB', (width, height))
NewImage(width, height) ==
    [ok |-> TRUE, width |-> width, height |-> height, parts |-> <<>>]

\* A pasted source: a tile of the grid cell (row, col), the stitched "map",
\* or the "panel" panel; row and col are -1 when the source is not a tile.
Part(x, y, w, h, kind, r, c) ==
    [x |-> x, y |-> y, w |-> w, h |-> h, kind |-> kind, row |-> r, col |-> c]

\* image.paste(source, (x, y))
Paste(image, part) == [image EXCEPT !.parts = Append(@, part)]

Covers(part, px, py) ==
    /\ part.x <= px /\ px < part.x + part.w
    /\ part.y <= py /\ py < part.y + part.h

\* The newest of the first n pastes that covers the pixel, 0 when none does.
RECURSIVE TopPart(_, _, _, _)
TopPart(parts, n, px, py) ==
    IF n = 0 THEN 0
    ELSE IF Covers(parts[n], px, py) THEN n
    ELSE TopPart(parts, n - 1, px, py)

Background == [kind |-> "background", row |-> -1, col |-> -1, sx |-> -1, sy |-> -1]

\* What the pixel (px, py) of the raster shows: the source and the pixel of
\* the source, or the background.
PixelAt(image, px, py) ==
    LET k == TopPart(image.parts, Len(image.parts), px, py)
    IN  IF k = 0 THEN Background
        ELSE [kind |-> image.parts[k].kind,
              row |-> image.parts[k].row,
              col |-> image.parts[k].col,
              sx |-> px - image.parts[k].x,
              sy |-> py - image.parts[k].y]

(***************************************************************************)
(* TILES.  The server's reply to a tile request is a failure (transport    *)
(* error, timeout, HTTP error, a body that is not an image) or a PNG with  *)
(* the size its header declares, whose pixel data is complete or not.      *)
(* Image.open reads the header only; the pixel data is decoded when the    *)
(* tile is pasted.                                                         *)
(***************************************************************************)

None == [present |-> FALSE, width |-> 0, height |-> 0, complete |-> FALSE]

Tile(width, height, complete) ==
    [present |-> TRUE, width |-> width, height |-> height, complete |-> complete]

FailedResponse == [kind |-> "error", width |-> 0, height |-> 0, complete |-> FALSE]

PngResponse(width, height, complete) ==
    [kind |-> "png", width |-> width, height |-> height, complete |-> complete]

\* tile_size=256
TileSize == 256

TileResponses ==
    { FailedResponse,
      PngResponse(TileSize, TileSize, TRUE),
      PngResponse(TileSize, TileSize, FALSE),
      PngResponse(2 * TileSize, 2 * TileSize, TRUE),
      PngResponse(TileSize \div 2, TileSize \div 2, TRUE) }

\* download_tile: None when urlopen, read or Image.open raises, else the
\* image Image.open returns.
download_tile(response) ==
    IF response.kind = "error" THEN None
    ELSE Tile(response.width, response.height, response.complete)

(***************************************************************************)
(* THE GRID ASSEMBLER (stitch_tiles) AND THE COMPOSITOR (add_title, the    *)
(* panel step of create_map).                                             *)
(***************************************************************************)

GridRows(grid) == Len(grid)
GridCols(grid) == IF Len(grid) > 0 THEN Len(grid[1]) ELSE 0

\* The size of a canvas that holds the tiles present and no more.
CanvasSizeBad(grid, size) ==
    LET at == { rc \in (1 .. GridRows(grid)) \X (1 .. GridCols(grid)) :
                   grid[rc[1]][rc[2]].present }
    IN  IF at = {} THEN <<0, 0>>
        ELSE LET c == CHOOSE c \in { rc[2] : rc \in at } :
                          \A rc \in at : rc[2] <= c
                 r == CHOOSE r \in { rc[1] : rc \in at } :
                          \A rc \in at : rc[1] <= r
             IN  <<c * size, r * size>>

\* width = cols * tile_size; height = rows * tile_size
CanvasSize(grid, size) ==
    <<GridCols(grid) * size, GridRows(grid) * size>>

\* The k-th cell in row-major order, as <<row_idx, col_idx>> from 0.
CellAt(k, cols) == <<(k - 1) \div cols, (k - 1) % cols>>

\* The paste of the tile at cell k.
TilePart(grid, size, k) ==
    LET rc == CellAt(k, GridCols(grid))
        tile == grid[rc[1] + 1][rc[2] + 1]
    IN  Part(rc[2] * size, rc[1] * size, tile.width, tile.height,
             "tile", rc[1], rc[2])

IsPresentAt(grid, k) ==
    LET rc == CellAt(k, GridCols(grid))
    IN  grid[rc[1] + 1][rc[2] + 1].present

IsBrokenAt(grid, k) ==
    LET rc == CellAt(k, GridCols(grid))
    IN  /\ grid[rc[1] + 1][rc[2] + 1].present
        /\ ~grid[rc[1] + 1][rc[2] + 1].complete

\* stitch_tiles(tiles_grid, tile_size): the canvas with every tile that is
\* not None pasted at (col_idx * tile_size, row_idx * tile_size), rows first.
\* paste decodes the tile and raises on one whose data is incomplete.
stitch_tiles(grid, size) ==
    LET n == GridRows(grid) * GridCols(grid)
        canvas == CanvasSize(grid, size)
        present == SelectSeq([k \in 1 .. n |-> k],
                             LAMBDA k : IsPresentAt(grid, k))
    IN  IF \E k \in 1 .. n : IsBrokenAt(grid, k)
        THEN [raised |-> TRUE, image |-> NoImage]
        ELSE [raised |-> FALSE,
              image |-> [NewImage(canvas[1], canvas[2]) EXCEPT !.parts =
                            [i \in 1 .. Len(present) |->
                                TilePart(grid, size, present[i])]]]

\* title_height = 60
TitleHeight == 60

\* add_title(image, ...): a canvas title_height taller with the image pasted
\* below the banner.
add_title(image) ==
    Paste(NewImage(image.width, image.height + TitleHeight),
          Part(0, TitleHeight, image.width, image.height, "map", -1, -1))

\* padding = 20
LegendPadding == 20

\* A canvas without the padding: the panel touches the map.
CombinedFlush(image, panel) ==
    Paste(Paste(NewImage(image.width + panel.width, image.height),
                Part(0, 0, image.width, image.height, "map", -1, -1)),
          Part(image.width, 0, panel.width, panel.height, "panel", -1, -1))

\* The canvas with the map at the left and the panel to its right.
Combined(image, panel) ==
    Paste(Paste(NewImage(image.width + panel.width + LegendPadding,
                         image.height),
                Part(0, 0, image.width, image.height, "map", -1, -1)),
          Part(image.width + LegendPadding, 0, panel.width, panel.height,
               "panel", -1, -1))

\* "if legend: ... else: continuing without it", taking None for a panel.
WithLegendBad(image, panel) == Combined(image, panel)

\* "if legend: ... else: continuing without it"
WithLegend(image, panel) ==
    IF panel.ok THEN Combined(image, panel) ELSE image

\* sum(1 for row in tiles_grid for tile in row if tile is not None)
SuccessfulTiles(grid) ==
    Cardinality({ rc \in (1 .. GridRows(grid)) \X (1 .. GridCols(grid)) :
                     grid[rc[1]][rc[2]].present })

\* A check that lets every grid through.
NoTileDownloadedBad(grid) == FALSE

\* if successful_tiles == 0
NoTileDownloaded(grid) == SuccessfulTiles(grid) = 0

\* The panel server's reply: a transport failure or a document.
FailedLegend == [kind |-> "error", doc |-> Document(FALSE, NoAttr, NoAttr, <<>>, <<>>)]
LegendDocument(doc) == [kind |-> "svg", doc |-> doc]

\* download_legend(..., target_height): the parse of the document received,
\* NoLegend (None) when urlopen or read raises.
download_legend(response, target_height, prog, strict) ==
    IF response.kind = "error" THEN NoLegend
    ELSE parse_svg_legend(response.doc, target_height, prog, strict)

(***************************************************************************)
(* THE REQUEST-TIME RESOLVER ALONE (SpecTime): one call of a resolver at   *)
(* an instant near a daylight-saving transition.                           *)
(***************************************************************************)

NoCoverage == [row_start |-> 0, row_end |-> -1, col_start |-> 0, col_end |-> -1]
NoReply == [kind |-> "none", doc |-> Document(FALSE, NoAttr, NoAttr, <<>>, <<>>)]

\* No fetch loop has run.
FetchIdle ==
    /\ row = 0
    /\ col = 0
    /\ tile_row = <<>>
    /\ tiles_grid = <<>>
    /\ requests = <<>>

\* No legend has been asked for.
LegendIdle ==
    /\ legend_height = 0
    /\ svg_data = NoReply
    /\ legend = NoLegend
    /\ painted_rows = <<>>

\* Nothing has been composed, saved or returned.
OutputIdle ==
    /\ stitched = NoImage
    /\ final_image = NoImage
    /\ output_file = NoImage
    /\ performed = {}
    /\ result = "none"
    /\ exit_code = -1

\* No program runs.
ConfigIdle ==
    /\ program = "none"
    /\ with_title = FALSE
    /\ with_legend = FALSE
    /\ coverage = NoCoverage
    /\ tile_size = TileSize
    /\ pillow_strict = FALSE

TimeInit ==
    /\ tpc = "idle"
    /\ now \in { Instant(hr, sub) : hr \in NowHours, sub \in SubHours }
    /\ \/ /\ tfunc = "get_time_param"
          /\ days_offset \in -MaxDayOffset .. MaxDayOffset
          /\ hour_offset \in -MaxHourOffset .. MaxHourOffset
       \/ /\ tfunc = "get_current_time_param"
          /\ days_offset = 0
          /\ hour_offset = 0
    /\ target_utc = NoDatetime
    /\ time_out = NoTimeOut
    /\ pc = "off"
    /\ ConfigIdle
    /\ FetchIdle
    /\ LegendIdle
    /\ OutputIdle

ResolveTimeParam ==
    /\ tpc = "idle"
    /\ pc = "off"
    /\ tfunc = "get_time_param"
    /\ tpc' = "resolved"
    /\ target_utc' = TargetUtc(now, days_offset, hour_offset)
    /\ time_out' = get_time_param(now, days_offset, hour_offset)
    /\ UNCHANGED <<tfunc, now, days_offset, hour_offset>>
    /\ UNCHANGED <<pc, cvars, fvars, lvars, ovars>>

ResolveCurrentTimeParam ==
    /\ tpc = "idle"
    /\ pc = "off"
    /\ tfunc = "get_current_time_param"
    /\ tpc' = "resolved"
    /\ target_utc' = AsTimezone(NowNz(now), "UTC")
    /\ time_out' = get_current_time_param(now)
    /\ UNCHANGED <<tfunc, now, days_offset, hour_offset>>
    /\ UNCHANGED <<pc, cvars, fvars, lvars, ovars>>

TimeNext == ResolveTimeParam \/ ResolveCurrentTimeParam

SpecTime == TimeInit /\ [][TimeNext]_vars

(***************************************************************************)
(* THE PIPELINE (Spec): one run of main of either program, from the call   *)
(* of create_map / create_nz_temperature_map to the exit of the process.   *)
(* The tile range is the zoom-6 range cut down to a few tiles.             *)
(***************************************************************************)

\* Most tiles in the range of a run.
MaxTiles == 4

\* 'row_start': 44, 'col_start': 123
RowStart == 44
ColStart == 123

Programs == {"nz_ocean_map", "nz_sea_temperature_map"}

Coverages ==
    { [row_start |-> RowStart, row_end |-> RowStart + r - 1,
       col_start |-> ColStart, col_end |-> ColStart + c - 1] :
          <<r, c>> \in { rc \in (1 .. MaxTiles) \X (1 .. MaxTiles) :
                            rc[1] * rc[2] <= MaxTiles } }

\* Instants at which a run starts: inside the repeated regional hour, and
\* after daylight saving has begun.
RunInstants ==
    { Instant(DstEndUtc, <<30, 0, 1>>), Instant(DstStartUtc + 5, <<0, 0, 0>>) }

\* "0%" ... as the characters of the attribute
Black == <<"r","g","b","(","0",",","0",",","0",")">>
White == <<"r","g","b","(","2","5","5",",","2","5","5",",","2","5","5",")">>
Red == <<"r","g","b","(","2","5","5",",","0",",","0",")">>

\* The legend of the specification's example: stops at 0% and 100%, labels
\* "0.0" at y=10 and "30.0" at y=290.
ExampleStops ==
    << StopElement(TRUE, TRUE, Attr(Black), Attr(<<"0","%">>)),
       StopElement(TRUE, TRUE, Attr(White), Attr(<<"1","0","0","%">>)) >>
ExampleTexts ==
    << TextElement(TRUE, Attr(<<"1","0">>), <<"0",".","0">>),
       TextElement(TRUE, Attr(<<"2","9","0">>), <<"3","0",".","0">>) >>
ExampleDocument ==
    Document(TRUE, Attr(<<"1","2","5">>), Attr(<<"3","0","0">>),
             ExampleStops, ExampleTexts)

\* Replies of the legend server tried in a run: no reply, a document that is
\* not well-formed, one whose height is not a number, one with a label that
\* holds a lone ".", and two that parse.
LegendReplies ==
    { FailedLegend,
      LegendDocument(Document(FALSE, NoAttr, NoAttr, <<>>, <<>>)),
      LegendDocument(Document(TRUE, Attr(<<"1","2","5">>), Attr(<<"3","0","0","p","x">>),
                              ExampleStops, ExampleTexts)),
      LegendDocument(Document(TRUE, NoAttr, NoAttr, ExampleStops,
                              << TextElement(TRUE, Attr(<<"1","0">>), <<".">>) >>)),
      LegendDocument(Document(TRUE, NoAttr, NoAttr, <<>>, <<>>)),
      LegendDocument(ExampleDocument) }

Init ==
    /\ pc = "main"
    /\ program \in Programs
    /\ IF program = "nz_ocean_map"
       THEN with_title \in BOOLEAN /\ with_legend \in BOOLEAN
       ELSE with_title = FALSE /\ with_legend = TRUE
    /\ coverage \in Coverages
    /\ tile_size = TileSize
    /\ pillow_strict \in BOOLEAN
    /\ tpc = "idle"
    /\ tfunc = (IF program = "nz_ocean_map"
                THEN "get_time_param" ELSE "get_current_time_param")
    /\ now \in RunInstants
    /\ days_offset = 0
    /\ hour_offset = 0
    /\ target_utc = NoDatetime
    /\ time_out = NoTimeOut
    /\ FetchIdle
    /\ LegendIdle
    /\ OutputIdle

\* create_map / create_nz_temperature_map up to the fetch loop: the time
\* parameter is resolved and the loop starts at the first cell.
Start ==
    /\ pc = "main"
    /\ tpc' = "resolved"
    /\ target_utc' = (IF program = "nz_ocean_map"
                      THEN TargetUtc(now, days_offset, hour_offset)
                      ELSE AsTimezone(NowNz(now), "UTC"))
    /\ time_out' = (IF program = "nz_ocean_map"
                    THEN get_time_param(now, days_offset, hour_offset)
                    ELSE get_current_time_param(now))
    /\ row' = coverage.row_start
    /\ col' = coverage.col_start
    /\ tile_row' = <<>>
    /\ tiles_grid' = <<>>
    /\ pc' = "fetch"
    /\ UNCHANGED <<tfunc, now, days_offset, hour_offset, requests>>
    /\ UNCHANGED <<cvars, lvars, ovars>>

\* A fetch loop that asks again for a tile that failed, instead of moving
\* on to the next cell.
FetchTileRetry ==
    /\ pc = "fetch"
    /\ \E response \in TileResponses :
          LET tile == download_tile(response)
              filled == Append(tile_row, tile)
          IN  /\ requests' = Append(requests, <<row, col, tile>>)
              /\ IF ~tile.present /\ Len(requests) < MaxTiles
                 THEN UNCHANGED <<row, col, tile_row, tiles_grid, pc>>
                 ELSE IF col < coverage.col_end
                 THEN /\ tile_row' = filled
                      /\ col' = col + 1
                      /\ UNCHANGED <<row, tiles_grid, pc>>
                 ELSE /\ tiles_grid' = Append(tiles_grid, filled)
                      /\ tile_row' = <<>>
                      /\ col' = coverage.col_start
                      /\ row' = row + 1
                      /\ pc' = (IF row < coverage.row_end THEN "fetch" ELSE "check")
    /\ UNCHANGED <<tvars, cvars, lvars, ovars>>

\* One turn of the inner loop: download_tile for (row, col) and
\* tile_row.append(tile); at the end of a row tiles_grid.append(tile_row).
FetchTile ==
    /\ pc = "fetch"
    /\ \E response \in TileResponses :
          LET filled == Append(tile_row, download_tile(response))
          IN  /\ requests' = Append(requests, <<row, col, download_tile(response)>>)
              /\ IF col < coverage.col_end
                 THEN /\ tile_row' = filled
                      /\ col' = col + 1
                      /\ UNCHANGED <<row, tiles_grid, pc>>
                 ELSE /\ tiles_grid' = Append(tiles_grid, filled)
                      /\ tile_row' = <<>>
                      /\ col' = coverage.col_start
                      /\ row' = row + 1
                      /\ pc' = (IF row < coverage.row_end THEN "fetch" ELSE "check")
    /\ UNCHANGED <<tvars, cvars, lvars, ovars>>

\* A raise out of create_map, or a return of False: main exits with 1.
Fail(how) ==
    /\ pc' = "exited"
    /\ result' = how
    /\ exit_code' = 1

\* The step after the stitch, and after the title.
AfterTitle == IF with_legend THEN "legend" ELSE "save"
AfterStitch == IF with_title THEN "title" ELSE AfterTitle

\* "if successful_tiles == 0: return False"
CheckTiles ==
    /\ pc = "check"
    /\ IF NoTileDownloaded(tiles_grid)
       THEN /\ Fail("False")
            /\ UNCHANGED <<stitched, final_image, output_file, performed>>
       ELSE /\ pc' = "stitch"
            /\ UNCHANGED ovars
    /\ UNCHANGED <<tvars, cvars, fvars, lvars>>

\* final_image = stitch_tiles(tiles_grid)
Stitch ==
    /\ pc = "stitch"
    /\ performed' = performed \cup {"stitch"}
    /\ LET out == stitch_tiles(tiles_grid, tile_size)
       IN  IF out.raised
           THEN /\ Fail("raised")
                /\ UNCHANGED <<stitched, final_image, output_file>>
           ELSE /\ stitched' = out.image
                /\ final_image' = out.image
                /\ pc' = AfterStitch
                /\ UNCHANGED <<output_file, result, exit_code>>
    /\ UNCHANGED <<tvars, cvars, fvars, lvars>>

\* "if with_title: final_image = add_title(final_image, ...)"
AddTitle ==
    /\ pc = "title"
    /\ performed' = performed \cup {"title"}
    /\ final_image' = add_title(final_image)
    /\ pc' = AfterTitle
    /\ UNCHANGED <<stitched, output_file, result, exit_code>>
    /\ UNCHANGED <<tvars, cvars, fvars, lvars>>

\* "legend = download_legend(..., target_height=final_image.height)" and the
\* composition that follows it.
AddLegend ==
    /\ pc = "legend"
    /\ performed' = performed \cup {"legend"}
    /\ \E response \in LegendReplies :
          /\ svg_data' = response
          /\ legend_height' = final_image.height
          /\ legend' = download_legend(response, final_image.height, program, pillow_strict)
          /\ final_image' = WithLegend(final_image, legend'.img)
    /\ pc' = "save"
    /\ UNCHANGED <<stitched, output_file, result, exit_code, painted_rows>>
    /\ UNCHANGED <<tvars, cvars, fvars>>

\* What a save that was cut short leaves on disk: some of the image's bytes,
\* no image that can be read back.
Truncated(image) == [image EXCEPT !.ok = FALSE]

\* final_image.save(output_file): the file is written.  The run stays at
\* "save" for the reporting that follows.
Save ==
    /\ pc = "save"
    /\ "save" \notin performed
    /\ performed' = performed \cup {"save"}
    /\ output_file' = final_image
    /\ UNCHANGED <<pc, stitched, final_image, result, exit_code>>
    /\ UNCHANGED <<tvars, cvars, fvars, lvars>>

\* final_image.save(output_file) raises: the file cannot be created (its
\* directory is missing, it may not be written) or its name has an extension
\* Pillow does not know.  No file is left; nothing in create_map holds the
\* exception back and main exits with 1.
SaveFails ==
    /\ pc = "save"
    /\ "save" \notin performed
    /\ performed' = performed \cup {"save"}
    /\ Fail("raised")
    /\ UNCHANGED <<stitched, final_image, output_file>>
    /\ UNCHANGED <<tvars, cvars, fvars, lvars>>

\* A KeyboardInterrupt while final_image.save(output_file) writes: save
\* removes what it has written on an Exception only, so the file stays as
\* far as it was written, and main exits with 1.
InterruptSave ==
    /\ pc = "save"
    /\ "save" \notin performed
    /\ performed' = performed \cup {"save"}
    /\ output_file' = Truncated(final_image)
    /\ Fail("interrupted")
    /\ UNCHANGED <<stitched, final_image>>
    /\ UNCHANGED <<tvars, cvars, fvars, lvars>>

\* The reporting after the save (os.path.getsize and the prints), "return
\* True" and sys.exit(0).
Report ==
    /\ pc = "save"
    /\ "save" \in performed
    /\ result' = "True"
    /\ exit_code' = 0
    /\ pc' = "exited"
    /\ UNCHANGED <<stitched, final_image, output_file, performed>>
    /\ UNCHANGED <<tvars, cvars, fvars, lvars>>

\* A KeyboardInterrupt while download_legend waits for the reply in urlopen:
\* its "except Exception" does not hold it back, so the legend was asked
\* for, no reply is read, and main exits with 1.
InterruptLegend ==
    /\ pc = "legend"
    /\ performed' = performed \cup {"legend"}
    /\ Fail("interrupted")
    /\ UNCHANGED <<stitched, final_image, output_file>>
    /\ UNCHANGED <<tvars, cvars, fvars, lvars>>

\* A KeyboardInterrupt before the step the run has come to, which no
\* "except Exception" holds back: main prints "Cancelled by user" and exits
\* with 1.  (One that arrives inside stitch_tiles or add_title, which touch
\* nothing outside the process, leaves what one before the call leaves.)
\* Nothing is undone: a file that save has written stays where it is.
Interrupt ==
    /\ pc \in {"main", "fetch", "check", "stitch", "title", "legend", "save"}
    /\ Fail("interrupted")
    /\ UNCHANGED <<stitched, final_image, output_file, performed>>
    /\ UNCHANGED <<tvars, cvars, fvars, lvars>>

Next ==
    \/ Start
    \/ FetchTile
    \/ CheckTiles
    \/ Stitch
    \/ AddTitle
    \/ AddLegend
    \/ Save
    \/ SaveFails
    \/ InterruptSave
    \/ InterruptLegend
    \/ Report
    \/ Interrupt

Spec == Init /\ [][Next]_vars

(***************************************************************************)
(* THE GRID ASSEMBLER ALONE (SpecStitch): stitch_tiles on every grid of    *)
(* at most MaxTiles cells, each cell None or a tile a server can send.     *)
(***************************************************************************)

TileSizes == { TileSize \div 2, TileSize, 2 * TileSize }

TileValues == { download_tile(response) : response \in TileResponses }

Grids ==
    { <<>> } \cup
    UNION { [1 .. rc[1] -> [1 .. rc[2] -> TileValues]] :
               rc \in { rc \in (1 .. MaxTiles) \X (1 .. MaxTiles) :
                           rc[1] * rc[2] <= MaxTiles } }

StitchInit ==
    /\ pc = "grid"
    /\ tiles_grid \in Grids
    /\ tile_size \in TileSizes
    /\ pillow_strict = FALSE
    /\ program = "none"
    /\ with_title = FALSE
    /\ with_legend = FALSE
    /\ coverage = NoCoverage
    /\ row = 0
    /\ col = 0
    /\ tile_row = <<>>
    /\ requests = <<>>
    /\ TimeIdle
    /\ LegendIdle
    /\ OutputIdle

\* stitch_tiles(tiles_grid, tile_size)
StitchGrid ==
    /\ pc = "grid"
    /\ pc' = "stitched"
    /\ performed' = performed \cup {"stitch"}
    /\ LET out == stitch_tiles(tiles_grid, tile_size)
       IN  /\ stitched' = out.image
           /\ result' = (IF out.raised THEN "raised" ELSE "returned")
    /\ UNCHANGED <<final_image, output_file, exit_code>>
    /\ UNCHANGED <<tvars, cvars, fvars, lvars>>

StitchNext == StitchGrid

SpecStitch == StitchInit /\ [][StitchNext]_vars

(***************************************************************************)
(* THE LEGEND PARSER ALONE (SpecLegend): parse_svg_legend on documents     *)
(* built from a pool of stop elements and a pool of text elements.         *)
(***************************************************************************)

\* Most stop elements, and most text elements, in a document.
MaxStops == 3
MaxTexts == 2

Blue == <<"r","g","b","(","0",","," ","0",",","2","5","5",")">>
Trailing == <<"r","g","b","(","1",",","2",",","3",")","x">>
Hex == <<"#","f","0","0">>

\* Stops: the example's two; red and blue, both at 50%; a colour that is no
\* rgb literal; an offset that is no number; a literal with text after it;
\* a stop outside the SVG namespace.
RedStop == StopElement(TRUE, TRUE, Attr(Red), Attr(<<"5","0","%">>))
BlueStop == StopElement(TRUE, TRUE, Attr(Blue), Attr(<<"5","0","%">>))
HexStop == StopElement(TRUE, TRUE, Attr(Hex), Attr(<<"2","5","%">>))
BadOffsetStop == StopElement(TRUE, TRUE, Attr(Red), Attr(<<"x","%">>))
TrailingStop == StopElement(TRUE, TRUE, Attr(Trailing), Attr(<<"7","5",".","5","%">>))
PlainStop == StopElement(FALSE, TRUE, Attr(Red), NoAttr)
StopPool ==
    { ExampleStops[1], ExampleStops[2], RedStop, BlueStop, HexStop,
      BadOffsetStop, TrailingStop, PlainStop }

\* Texts: the example's two; one that is blank; one whose y is no number;
\* one without y; one outside the SVG namespace; one that is a lone ".";
\* one that names a unit and holds no number.
BlankText == TextElement(TRUE, Attr(<<"1","5","0">>), <<" "," ">>)
BadYText == TextElement(TRUE, Attr(<<"a","b","c">>), <<"5">>)
NoYText == TextElement(TRUE, NoAttr, <<" ","1","5"," ","C"," ">>)
PlainText == TextElement(FALSE, Attr(<<"2","0",".","5">>), <<"-","2",".","5">>)
DotText == TextElement(TRUE, Attr(<<"3","0">>), <<".">>)
UnitText == TextElement(TRUE, Attr(<<"4","0">>), <<"C">>)
TextPool ==
    { ExampleTexts[1], ExampleTexts[2], BlankText, BadYText, NoYText,
      PlainText, DotText, UnitText }

RootAttrs ==
    { NoAttr, Attr(<<"1","2","5">>), Attr(<<" ","4","0","0"," ">>),
      Attr(<<"3","0","0",".","5">>), Attr(<<"1","2","5","p","x">>),
      Attr(<<"-","5">>) }

SeqsUpTo(S, n) == UNION { [1 .. k -> S] : k \in 0 .. n }

LegendDocuments ==
    { Document(TRUE, NoAttr, NoAttr, stops, ExampleTexts) :
         stops \in SeqsUpTo(StopPool, MaxStops) }
    \cup { Document(TRUE, NoAttr, NoAttr, ExampleStops, texts) :
              texts \in SeqsUpTo(TextPool, MaxTexts) }
    \cup { Document(wf, w, h, ExampleStops, ExampleTexts) :
              wf \in BOOLEAN, w \in RootAttrs, h \in RootAttrs }

\* target_height: None, or the height of a one-row map with its title.
LegendHeights == { 0, TileSize + TitleHeight }

LegendInit ==
    /\ pc = "svg"
    /\ program \in Programs
    /\ svg_data \in { LegendDocument(d) : d \in LegendDocuments }
    /\ legend_height \in LegendHeights
    /\ legend = NoLegend
    /\ painted_rows = <<>>
    /\ with_title = FALSE
    /\ with_legend = TRUE
    /\ coverage = NoCoverage
    /\ tile_size = TileSize
    /\ pillow_strict \in BOOLEAN
    /\ TimeIdle
    /\ FetchIdle
    /\ OutputIdle

\* parse_svg_legend(svg_data, target_height)
ParseLegend ==
    /\ pc = "svg"
    /\ pc' = "parsed"
    /\ legend' = parse_svg_legend(svg_data.doc, legend_height, program, pillow_strict)
    /\ UNCHANGED <<legend_height, svg_data, painted_rows>>
    /\ UNCHANGED <<tvars, cvars, fvars, ovars>>

LegendNext == ParseLegend

SpecLegend == LegendInit /\ [][LegendNext]_vars

(***************************************************************************)
(* THE LEGEND RENDERER ALONE (SpecRender): create_legend_image on a stop   *)
(* list, and the rows of its gradient bar painted one by one.              *)
(***************************************************************************)

\* Tallest gradient bar painted.
MaxBarHeight == 20

Stop(offset, r, g, b) == <<FFromInt(offset), <<r, g, b>>>>

\* Stop lists: the specification's ramp; a ramp inside the domain; one with
\* two stops at the same offset; one reaching outside [0, 100]; one of odd
\* colours; the empty list and a single stop; one that starts with two
\* stops at the same offset.
Ramps ==
    { << Stop(0, 0, 0, 0), Stop(50, 255, 0, 0), Stop(100, 255, 255, 255) >>,
      << Stop(10, 0, 0, 0), Stop(30, 255, 0, 0) >>,
      << Stop(0, 0, 0, 0), Stop(50, 255, 0, 0), Stop(50, 0, 0, 255),
         Stop(100, 255, 255, 255) >>,
      << Stop(-5, 0, 0, 0), Stop(120, 0, 240, 120) >>,
      << Stop(0, 10, 201, 77), Stop(35, 200, 100, 0), Stop(90, 1, 2, 255) >>,
      << >>,
      << Stop(50, 1, 2, 3) >>,
      << Stop(50, 0, 0, 255), Stop(50, 255, 0, 0), Stop(100, 255, 255, 255) >> }

\* target_height: a negative height, heights too short for a bar, and the
\* heights of the bars of 0 to MaxBarHeight rows.
RenderHeights ==
    { -5, 0, 100, BarYStart + Padding * 2 - 1 }
        \cup (BarYStart + Padding * 2 .. BarYStart + Padding * 2 + MaxBarHeight)

RenderInit ==
    /\ pc = "render"
    /\ program \in Programs
    /\ pillow_strict \in BOOLEAN
    /\ legend_height \in RenderHeights
    /\ \E ramp \in Ramps :
          legend = [called |-> TRUE, colors |-> ramp, labels |-> <<>>,
                    img |-> create_legend_image(ramp, <<>>, legend_height, program,
                                               pillow_strict)]
    /\ svg_data = NoReply
    /\ painted_rows = <<>>
    /\ with_title = FALSE
    /\ with_legend = TRUE
    /\ coverage = NoCoverage
    /\ tile_size = TileSize
    /\ TimeIdle
    /\ FetchIdle
    /\ OutputIdle

\* One turn of "for y in range(bar_height)" of create_legend_image.
PaintRow ==
    /\ pc = "render"
    /\ Len(painted_rows) < legend.img.bar_height
    /\ painted_rows' =
          Append(painted_rows,
                 RowColor(legend.img.colors, Len(painted_rows), legend.img.bar_height))
    /\ UNCHANGED <<pc, legend_height, svg_data, legend>>
    /\ UNCHANGED <<tvars, cvars, fvars, ovars>>

\* The rest of create_legend_image after the loop: the border is drawn over
\* the rows of the bar and the panel is returned.
DrawBorder ==
    /\ pc = "render"
    /\ legend.img.ok
    /\ Len(painted_rows) >= legend.img.bar_height
    /\ painted_rows' =
          [y \in 1 .. Len(painted_rows) |->
              Bordered(painted_rows[y], y - 1, legend.img.bar_height)]
    /\ pc' = "returned"
    /\ UNCHANGED <<legend_height, svg_data, legend>>
    /\ UNCHANGED <<tvars, cvars, fvars, ovars>>

\* create_legend_image raises: Image.new on a negative height, or the
\* border's rectangle on a height too short for a bar.  No panel is
\* returned.
RenderRaises ==
    /\ pc = "render"
    /\ ~legend.img.ok
    /\ pc' = "raised"
    /\ UNCHANGED <<legend_height, svg_data, legend, painted_rows>>
    /\ UNCHANGED <<tvars, cvars, fvars, ovars>>

RenderNext == PaintRow \/ DrawBorder \/ RenderRaises

SpecRender == RenderInit /\ [][RenderNext]_vars

(***************************************************************************)
(* CLAIMS                                                                  *)
(***************************************************************************)

\* C1: the UTC timestamp produced by get_time_param and by
\* get_current_time_param has hour % 6 = 0 and minute, second and sub-second
\* zero, and the regional time get_time_param returns for display (the
\* datetime, and the display string create_map formats from it) denotes the
\* same instant as that UTC timestamp.
C1_AlignedAndSameInstant ==
    tpc = "resolved" =>
        /\ time_out.utc.hour % 6 = 0
        /\ time_out.utc.minute = 0
        /\ time_out.utc.second = 0
        /\ time_out.utc.millis = 0
        /\ tfunc = "get_time_param" =>
              /\ InstantOf(time_out.nz) = InstantOfIso(time_out.utc)
              /\ InstantOfDisplay(TimeDisplay(time_out.nz))
                    = InstantOfIso(time_out.utc)

\* A resolution by get_time_param with non-zero offsets, from an instant
\* that is on no hour, to a target that is on no six-hour mark, where the
\* regional time returned is not the target's own regional reading.
C1_Witness ==
    /\ tpc = "resolved"
    /\ tfunc = "get_time_param"
    /\ days_offset # 0
    /\ hour_offset # 0
    /\ now.mi # 0
    /\ now.us # 0
    /\ HourOfDay(target_utc.wall) % 6 # 0
    /\ time_out.nz.wall # target_utc.wall + NzOffsetAtUtc(target_utc.wall)

\* The cells of the grid in tiles_grid, as <<row, col>> from 1.
GridCells ==
    { rc \in (1 .. Len(tiles_grid)) \X (1 .. (IF tiles_grid = <<>> THEN 0
                                               ELSE Len(tiles_grid[1]))) : TRUE }

\* C2: for a grid of R rows by C columns and tile size T, the raster that
\* stitch_tiles returns is exactly C*T wide and R*T high, whichever cells
\* are absent, from none to all of them.
C2_StitchedSize ==
    (pc = "stitched" /\ result = "returned") =>
        /\ stitched.ok
        /\ stitched.height = Len(tiles_grid) * tile_size
        /\ stitched.width =
              (IF tiles_grid = <<>> THEN 0 ELSE Len(tiles_grid[1])) * tile_size

\* stitch_tiles has returned for a grid of two rows and two columns with
\* every cell absent, and a tile size that is not the default.
C2_Witness ==
    /\ pc = "stitched"
    /\ result = "returned"
    /\ Len(tiles_grid) = 2
    /\ Len(tiles_grid[1]) = 2
    /\ \A rc \in GridCells : ~tiles_grid[rc[1]][rc[2]].present
    /\ tile_size # TileSize

\* Pixels of the cell <<row, col>>: its corners and the pixels either side
\* of its middle lines.
CellPixels(rc) ==
    { <<(rc[2] - 1) * TileSize + dx, (rc[1] - 1) * TileSize + dy>> :
         dx \in {0, TileSize \div 2 - 1, TileSize \div 2, TileSize - 1},
         dy \in {0, TileSize \div 2 - 1, TileSize \div 2, TileSize - 1} }

\* What the pixel p of stitched must show for the cell rc: the tile's own
\* pixel, counted from the cell's corner, or the background.
CellShows(rc, p) ==
    IF tiles_grid[rc[1]][rc[2]].present
    THEN [kind |-> "tile", row |-> rc[1] - 1, col |-> rc[2] - 1,
          sx |-> p[1] - (rc[2] - 1) * TileSize,
          sy |-> p[2] - (rc[1] - 1) * TileSize]
    ELSE Background

\* C3: once the fetch loop has left at least one tile, the run produces a
\* full-size raster in which a cell's pixels are painted if and only if
\* that cell's fetch succeeded: a present tile fills exactly its own cell
\* from (col * tileSize, row * tileSize), an absent cell keeps the
\* background; so with one success only that one cell is painted.
C3_PaintedIffFetched ==
    "stitch" \in performed =>
        /\ stitched.ok
        /\ stitched.width = Len(tiles_grid[1]) * TileSize
        /\ stitched.height = Len(tiles_grid) * TileSize
        /\ \A rc \in GridCells : \A p \in CellPixels(rc) :
              PixelAt(stitched, p[1], p[2]) = CellShows(rc, p)

\* The fetch loop has made every request of the range.
FetchLoopDone ==
    Len(requests) = (coverage.row_end - coverage.row_start + 1)
                       * (coverage.col_end - coverage.col_start + 1)

\* C4: if all N tile fetches fail, the run reports failure (create_map /
\* create_nz_temperature_map returns False and the process exits non-zero)
\* and no stitching, no legend request and no save is performed: there is
\* no output file.
C4_AllFailed ==
    (FetchLoopDone /\ \A rc \in GridCells : ~tiles_grid[rc[1]][rc[2]].present) =>
        /\ performed = {}
        /\ output_file = NoImage
        /\ legend_height = 0 /\ svg_data = NoReply
        /\ pc \in {"check", "exited"}
        /\ pc = "exited" =>
              /\ exit_code = 1
              /\ result \in {"False", "interrupted"}

\* A run over two rows and two columns has exited after all four fetches
\* failed, by the return of False.
C4_Witness ==
    /\ pc = "exited"
    /\ result = "False"
    /\ Len(requests) = 4
    /\ Len(tiles_grid) = 2
    /\ \A rc \in GridCells : ~tiles_grid[rc[1]][rc[2]].present

\* C5: a tile whose payload cannot be decoded is marked absent like any
\* other failed fetch, download_tile raising nothing, and no tile failure
\* aborts the run: none is found out only when the tile is pasted, so no
\* run ends by a raise before it comes to the save.
C5_TileFailureIsAbsence ==
    /\ \A i \in 1 .. Len(tile_row) : tile_row[i].present => tile_row[i].complete
    /\ \A rc \in GridCells :
          tiles_grid[rc[1]][rc[2]].present => tiles_grid[rc[1]][rc[2]].complete
    /\ result = "raised" => "save" \in performed

\* The width of the grid image, with or without its title.
GridImageWidth == Len(tiles_grid[1]) * TileSize

\* C6: when the legend is unavailable (the request fails in transport or
\* the document received cannot be parsed) the run is not failed: it goes
\* on to the save, and where the save itself succeeds and no interrupt
\* arrives it returns success with the image saved; the image has no
\* legend panel: its width is the width of the grid image, title or not,
\* with no legend padding.
C6_LegendUnavailable ==
    ("legend" \in performed /\ ~legend.img.ok) =>
        /\ pc \in {"save", "exited"}
        /\ final_image.ok
        /\ final_image.width = GridImageWidth
        /\ \A i \in 1 .. Len(final_image.parts) : final_image.parts[i].kind # "panel"
        /\ "save" \notin performed => pc = "save" \/ result = "interrupted"
        /\ (pc = "exited" /\ result \notin {"interrupted", "raised"}) =>
              /\ result = "True"
              /\ exit_code = 0
              /\ output_file = final_image

\* A run with a title has saved its image and exited after the legend
\* server sent a document that is not well-formed.
C6_Witness ==
    /\ pc = "exited"
    /\ result = "True"
    /\ with_title
    /\ "legend" \in performed
    /\ svg_data.kind = "svg"
    /\ ~svg_data.doc.wellformed
    /\ ~legend.img.ok
    /\ output_file.ok

\* C7: every tile download_tile returns as a success is a raster of the
\* fixed tile size, 256 x 256, so the present tiles of every grid handed to
\* stitch_tiles all have the size used to place them.
C7_TilesHaveTileSize ==
    /\ \A i \in 1 .. Len(tile_row) :
          tile_row[i].present =>
              tile_row[i].width = TileSize /\ tile_row[i].height = TileSize
    /\ \A rc \in GridCells :
          tiles_grid[rc[1]][rc[2]].present =>
              /\ tiles_grid[rc[1]][rc[2]].width = TileSize
              /\ tiles_grid[rc[1]][rc[2]].height = TileSize

\* The characters i .. j - 1 of str are decimal digits, one at least.
AllDigits(str, i, j) == i < j /\ \A k \in i .. j - 1 : IsDigit(str[k])

\* The characters i .. j - 1 of str are spaces, maybe none, then digits.
SpacedDigits(str, i, j) ==
    \E k \in i .. j - 1 :
        /\ \A m \in i .. k - 1 : IsSpace(str[m])
        /\ AllDigits(str, k, j)

\* The first n characters of str read rgb(r,g,b): three runs of digits
\* between "rgb(" and ")", parted by commas, spaces allowed after a comma.
RgbLiteralEnds(str, n) ==
    /\ 10 <= n /\ n <= Len(str)
    /\ SubSeq(str, 1, 4) = <<"r", "g", "b", "(">>
    /\ str[n] = ")"
    /\ \E a, b \in 6 .. n - 1 :
          /\ a < b
          /\ str[a] = "," /\ str[b] = ","
          /\ AllDigits(str, 5, a)
          /\ SpacedDigits(str, a + 1, b)
          /\ SpacedDigits(str, b + 1, n)

\* The stop-color is an rgb(r,g,b) literal; it begins with one.
IsRgbLiteral(str) == RgbLiteralEnds(str, Len(str))
BeginsWithRgbLiteral(str) == \E n \in 1 .. Len(str) : RgbLiteralEnds(str, n)

\* The stops of the document received whose stop-color passes the test, in
\* document order, each as (float offset percent, (r, g, b)).
StopsWith(Literal(_)) ==
    LET found == FindStops(svg_data.doc)
        kept == SelectSeq(found, LAMBDA e : e.color.has /\ Literal(e.color.str))
    IN  [i \in 1 .. Len(kept) |->
            <<PyFloat(OffsetText(kept[i])).val, MatchRgb(kept[i].color.str).rgb>>]

\* The texts of the document received whose trimmed text is not empty, in
\* document order, each as (y, text).
TextsKept ==
    LET found == FindTexts(svg_data.doc)
        kept == SelectSeq(found, LAMBDA e : Strip(e.text) # <<>>)
    IN  [i \in 1 .. Len(kept) |-> <<TextY(kept[i]).val, Strip(kept[i].text)>>]

CountIn(list, x) == Cardinality({ i \in 1 .. Len(list) : list[i] = x })

\* The two lists hold the same items, each as many times.
SameItems(a, b) ==
    /\ Len(a) = Len(b)
    /\ \A i \in 1 .. Len(a) : CountIn(a, a[i]) = CountIn(b, a[i])

\* The list is in ascending order of its items' first components.
Ascending(list) ==
    \A i, j \in 1 .. Len(list) : i < j => FLe(list[i][1], list[j][1])

\* The document received holds the example's two stops and two labels, in
\* any order, and then the lists handed over are the example's.
ExampleHandedOver ==
    ( /\ Len(svg_data.doc.stops) = 2
      /\ { svg_data.doc.stops[i] : i \in 1 .. 2 } = { ExampleStops[i] : i \in 1 .. 2 }
      /\ Len(svg_data.doc.texts) = 2
      /\ { svg_data.doc.texts[i] : i \in 1 .. 2 } = { ExampleTexts[i] : i \in 1 .. 2 } )
    => /\ legend.colors = << Stop(0, 0, 0, 0), Stop(100, 255, 255, 255) >>
       /\ legend.labels = << <<FFromInt(10), <<"0", ".", "0">>>>,
                             <<FFromInt(290), <<"3", "0", ".", "0">>>> >>

\* Every number the parser converts is one: the root's width and height if
\* given, the offset of every stop whose colour begins with an rgb literal,
\* the y of every text.
NumbersParse ==
    /\ svg_data.doc.width.has => PyInt(svg_data.doc.width.str).ok
    /\ svg_data.doc.height.has => PyInt(svg_data.doc.height.str).ok
    /\ \A e \in { FindStops(svg_data.doc)[i] : i \in 1 .. Len(FindStops(svg_data.doc)) } :
          (e.color.has /\ BeginsWithRgbLiteral(e.color.str))
              => PyFloat(OffsetText(e)).ok
    /\ \A e \in { FindTexts(svg_data.doc)[i] : i \in 1 .. Len(FindTexts(svg_data.doc)) } :
          e.y.has => PyFloat(e.y.str).ok

\* C8 as stated: for every well-formed legend document, parse_svg_legend
\* hands the renderer exactly the gradient stops whose stop-color is an
\* rgb(r,g,b) literal, each as (float offset percent, (r,g,b)), in ascending
\* order of offset, and the text elements whose trimmed text is not empty,
\* each as (y, text), in ascending order of y; the example's document gives
\* the example's lists whatever the order of its elements.
C8_HandsOverEveryDocument ==
    (pc = "parsed" /\ svg_data.doc.wellformed) =>
        /\ legend.called
        /\ SameItems(legend.colors, StopsWith(IsRgbLiteral))
        /\ Ascending(legend.colors)
        /\ SameItems(legend.labels, TextsKept)
        /\ Ascending(legend.labels)
        /\ ExampleHandedOver

\* C8, amended: for every well-formed legend document in which every number
\* the parser converts is one (the root's width and height, the offset of
\* each stop kept, the y of each text), parse_svg_legend hands the renderer
\* exactly the gradient stops whose stop-color begins with an rgb(r,g,b)
\* literal, each as (float offset percent, (r,g,b)), in ascending order of
\* offset, and the text elements whose trimmed text is not empty, each as
\* (y, text), in ascending order of y; the example's document gives the
\* example's lists whatever the order of its elements.
C8_HandsOverNumericDocument ==
    (pc = "parsed" /\ svg_data.doc.wellformed /\ NumbersParse) =>
        /\ legend.called
        /\ SameItems(legend.colors, StopsWith(BeginsWithRgbLiteral))
        /\ Ascending(legend.colors)
        /\ SameItems(legend.labels, TextsKept)
        /\ Ascending(legend.labels)
        /\ ExampleHandedOver

\* The parser has handed over the stops of a document that lists white at
\* 100%, then a stop that is no rgb literal, then black at 0%.
C8_Witness ==
    /\ pc = "parsed"
    /\ svg_data.doc.stops = << ExampleStops[2], HexStop, ExampleStops[1] >>
    /\ legend.called
    /\ Len(legend.colors) = 2
    /\ Len(legend.labels) = 2

\* C9 as stated: for every document the parser accepts, the stop list is
\* sorted ascending by offset and no two of its stops share an offset.
C9_StrictlyIncreasingOffsets ==
    (pc = "parsed" /\ legend.called) =>
        \A i, j \in 1 .. Len(legend.colors) :
            i < j => FCmp(legend.colors[i][1], legend.colors[j][1]) < 0

\* The items of the list whose first component equals that of x.
WithKeyOf(list, x) == SelectSeq(list, LAMBDA e : FEq(e[1], x[1]))

\* C9, amended: for every document the parser accepts, the stop list is
\* sorted ascending by offset, offsets may repeat, and the stops that share
\* an offset are all kept, in the order the document lists them.
C9_AscendingStableOffsets ==
    (pc = "parsed" /\ legend.called) =>
        /\ Ascending(legend.colors)
        /\ \A i \in 1 .. Len(legend.colors) :
              WithKeyOf(legend.colors, legend.colors[i])
                 = WithKeyOf(StopsWith(BeginsWithRgbLiteral), legend.colors[i])

\* The parser has accepted a document and its stop list holds two stops of
\* different colours, one after the other, at the same offset.
C9_Witness ==
    /\ pc = "parsed"
    /\ legend.called
    /\ \E i \in 1 .. Len(legend.colors) - 1 :
          /\ FEq(legend.colors[i][1], legend.colors[i + 1][1])
          /\ legend.colors[i][2] # legend.colors[i + 1][2]

\* The offset of a stop of Ramps, a whole number of percent.
WholeOffset(stop) == FTrunc(stop[1])

DistinctAscending(colors) ==
    \A i \in 1 .. Len(colors) - 1 : WholeOffset(colors[i]) < WholeOffset(colors[i + 1])

\* The linear interpolation of channel k between the stops a and b at row y
\* of h, as a fraction: InterpNum / InterpDen.
InterpNum(a, b, k, y, h) ==
    a[2][k] * (WholeOffset(b) * h - 100 * y) + b[2][k] * (100 * y - WholeOffset(a) * h)
InterpDen(a, b, h) == (WholeOffset(b) - WholeOffset(a)) * h

AbsVal(n) == IF n < 0 THEN -n ELSE n

\* The row y of a bar of h rows lies in the pair (a, b), and its colour is
\* the interpolation of the pair: each channel less than one away from the
\* exact value, and the stop's own colour at a stop's offset.
RowInterpolates(painted, a, b, y, h) ==
    (WholeOffset(a) * h <= 100 * y /\ 100 * y <= WholeOffset(b) * h) =>
        /\ painted.painted
        /\ \A k \in 1 .. 3 :
              AbsVal(painted.rgb[k] * InterpDen(a, b, h) - InterpNum(a, b, k, y, h))
                  < InterpDen(a, b, h)
        /\ 100 * y = WholeOffset(a) * h => painted.rgb = a[2]
        /\ 100 * y = WholeOffset(b) * h => painted.rgb = b[2]

\* C10: for a sorted stop list with distinct offsets, the colour drawn at a
\* ratio that lies in a stop pair is the per-channel linear interpolation
\* of the pair's colours with blend = (ratio * 100 - offset_i) /
\* (offset_i+1 - offset_i), and at a ratio equal to a stop's offset it is
\* exactly that stop's colour (so red at 0.5 of black, red, white).
C10_Interpolation ==
    (pc = "render" /\ DistinctAscending(legend.img.colors)) =>
        \A y \in 0 .. Len(painted_rows) - 1 :
            \A i \in 1 .. Len(legend.img.colors) - 1 :
                RowInterpolates(painted_rows[y + 1], legend.img.colors[i],
                                legend.img.colors[i + 1], y, legend.img.bar_height)

\* C11 as the specification states it: given an empty stop list, and
\* likewise a list of one stop, create_legend_image returns a panel without
\* raising, and every row of the bar is left as the background the panel
\* was created with, in the loop and in the panel returned.
C11_NoPairNoPaint ==
    Len(legend.colors) <= 1 =>
        /\ legend.img.ok
        /\ pc # "raised"
        /\ \A y \in 1 .. Len(painted_rows) :
              /\ ~painted_rows[y].painted
              /\ painted_rows[y].rgb = <<255, 255, 255>>
              /\ pc = "returned" => painted_rows[y].edge = <<255, 255, 255>>

\* C11, amended: given an empty stop list, and likewise a list of one stop,
\* create_legend_image returns a panel without raising for every target
\* height of at least 160 (below 160 it raises on a negative height, and on
\* any height with a Pillow that rejects the border's box), and the
\* gradient loop paints no row of the bar: in the panel returned a row
\* shows the white background except under the black border, which covers
\* the first two rows and the last row wholly and the edge columns of every
\* other row.
C11_NoPairOnlyBorder ==
    Len(legend.colors) <= 1 =>
        /\ legend.img.ok <=>
              \/ legend_height >= 4 * Padding
              \/ legend_height >= 0 /\ ~pillow_strict
        /\ legend.img.ok => legend.img.height = legend_height
        /\ pc = "raised" => ~legend.img.ok
        /\ pc = "render" =>
              \A y \in 1 .. Len(painted_rows) :
                  /\ ~painted_rows[y].painted
                  /\ painted_rows[y].rgb = <<255, 255, 255>>
        /\ pc = "returned" =>
              /\ legend.img.ok
              /\ legend.img.bar_height > 0 => Len(painted_rows) = legend.img.bar_height
              /\ legend.img.bar_height <= 0 => painted_rows = <<>>
              /\ \A y \in 1 .. Len(painted_rows) :
                    /\ painted_rows[y] = BarRow(legend.img, y - 1)
                    /\ ~painted_rows[y].painted
                    /\ painted_rows[y].edge = <<0, 0, 0>>
                    /\ painted_rows[y].rgb =
                          IF y \in {1, 2, Len(painted_rows)}
                          THEN <<0, 0, 0>> ELSE <<255, 255, 255>>

\* A panel made from the empty stop list has been returned with a bar of
\* more than three rows: its first row is under the border, its third keeps
\* the background between its edges.
C11_Witness ==
    /\ pc = "returned"
    /\ legend.colors = <<>>
    /\ legend.img.ok
    /\ legend.img.bar_height > 3
    /\ Len(painted_rows) = legend.img.bar_height
    /\ painted_rows[1].rgb = <<0, 0, 0>>
    /\ painted_rows[3].rgb = <<255, 255, 255>>
    /\ painted_rows[3].edge = <<0, 0, 0>>

\* The first place of a label's text where a number starts: a digit, or a
\* minus sign with a digit after it; past the end when there is none.
RECURSIVE NumeralStart(_, _)
NumeralStart(str, i) ==
    IF i > Len(str) THEN i
    ELSE IF IsDigit(str[i]) \/ (str[i] = "-" /\ IsDigit(CharAt(str, i + 1))) THEN i
    ELSE NumeralStart(str, i + 1)

\* The index after the number that starts at i: its sign, its digits, and a
\* point with digits after it if there is one.
NumeralEnd(str, i) ==
    LET d == DigitsEnd(str, IF str[i] = "-" THEN i + 1 ELSE i)
    IN  IF CharAt(str, d) = "." /\ IsDigit(CharAt(str, d + 1))
        THEN DigitsEnd(str, d + 1) ELSE d

HasNumeral(str) == NumeralStart(str, 1) <= Len(str)

\* The value of the first numeric substring of a label's text.
FirstNumeral(str) ==
    LET b == NumeralStart(str, 1)
    IN  PyFloat(SubSeq(str, b, NumeralEnd(str, b) - 1)).val

\* The numbers of the labels handed to the renderer.
LabelNumbers ==
    { FirstNumeral(legend.labels[i][2]) :
         i \in { j \in 1 .. Len(legend.labels) : HasNumeral(legend.labels[j][2]) } }

\* C12: the three captions drawn are max, midpoint and min, where min and
\* max are the least and the greatest of the first numeric substrings
\* (optionally signed, optionally decimal) of the labels' texts and the
\* midpoint is (min + max) / 2; the labels '0.0' and '30.0' give 0.0, 30.0
\* and 15.0, and a negative number counts with its negative value.
C12_CaptionsAreRange ==
    (pc = "parsed" /\ legend.called /\ legend.img.ok /\ LabelNumbers # {}) =>
        /\ legend.img.captions.has
        /\ legend.img.captions.min \in LabelNumbers
        /\ legend.img.captions.max \in LabelNumbers
        /\ \A v \in LabelNumbers :
              FLe(legend.img.captions.min, v) /\ FLe(v, legend.img.captions.max)
        /\ legend.img.captions.mid =
              FDiv(FAdd(legend.img.captions.min, legend.img.captions.max), FFromInt(2))
        /\ svg_data.doc.texts = ExampleTexts =>
              /\ legend.img.captions.min = FZero
              /\ legend.img.captions.max = FFromInt(30)
              /\ legend.img.captions.mid = FFromInt(15)

\* C12 for nz_ocean_map.py alone, whose pattern for a label's number admits
\* the minus sign.
C12_OceanCaptionsAreRange == program = "nz_ocean_map" => C12_CaptionsAreRange

\* No character of the label's text is a digit.
HasNoDigit(str) == \A i \in 1 .. Len(str) : ~IsDigit(str[i])

\* C13: if no number can be extracted from any label text (no label holds
\* a digit: texts of '-' or '.' characters only, and the empty label list,
\* included), the parser still returns the panel, without captions.
C13_NoNumberStillPanel ==
    ( /\ pc = "parsed"
      /\ legend.called
      /\ \A i \in 1 .. Len(legend.labels) : HasNoDigit(legend.labels[i][2]) )
    => /\ legend.img.ok
       /\ ~legend.img.captions.has

\* C13 for the label lists in which no text holds a digit, a '-' or a '.'.
C13_NoNumberCharacterStillPanel ==
    (\A i \in 1 .. Len(legend.labels) :
        \A k \in 1 .. Len(legend.labels[i][2]) : legend.labels[i][2][k] \notin {"-", "."})
    => C13_NoNumberStillPanel

\* C14: the resolved UTC instant is the floor of the offset-applied target:
\* the greatest six-hour mark at or before the target, so resolved <= target
\* < resolved + 6 hours, and it is on the target's UTC date.  (The resolved
\* instant is on an hour, so the comparisons are on the hour counts.)
C14_FloorOfTarget ==
    tpc = "resolved" =>
        LET resolved == InstantOfIso(time_out.utc)
            target == InstantOf(target_utc)
        IN  /\ resolved.hr % 6 = 0
            /\ resolved.mi = 0 /\ resolved.s = 0 /\ resolved.us = 0
            /\ resolved.hr <= target.hr
            /\ target.hr < resolved.hr + 6
            /\ DayOf(resolved.hr) = DayOf(target.hr)
            /\ time_out.utc.date = DayOf(target_utc.wall)

\* A target one microsecond short of a six-hour mark, late in its UTC day,
\* has been resolved by get_time_param with offsets applied.
C14_Witness ==
    /\ tpc = "resolved"
    /\ tfunc = "get_time_param"
    /\ days_offset # 0
    /\ hour_offset # 0
    /\ HourOfDay(target_utc.wall) = 23
    /\ target_utc.mi = 59 /\ target_utc.s = 59 /\ target_utc.us = 999999
    /\ time_out.utc.hour = 18

\* The rows and columns of the rectangle of the run, and its coordinates in
\* row-major order: the k-th is RowMajor(k), k from 1.
CoverageRows == coverage.row_end - coverage.row_start + 1
CoverageCols == coverage.col_end - coverage.col_start + 1
RowMajor(k) ==
    << coverage.row_start + ((k - 1) \div CoverageCols),
       coverage.col_start + ((k - 1) % CoverageCols) >>

\* The results gathered so far, row after row: the rows appended to
\* tiles_grid, then the row being filled.
RECURSIVE Flattened(_, _)
Flattened(grid, n) ==
    IF n = 0 THEN <<>> ELSE Flattened(grid, n - 1) \o grid[n]
Gathered == Flattened(tiles_grid, Len(tiles_grid)) \o tile_row

\* C15: in every run that reaches the fetch phase, tiles are fetched one at
\* a time in row-major order over the inclusive rectangle: the k-th request
\* is for the k-th coordinate, so every coordinate is requested once at
\* most and a failed tile is never asked for again; each fetch has settled
\* (its result is stored) before the next starts; grid cell [i][j] holds
\* the result for (row_start + i, col_start + j); and the steps after the
\* loop, stitching among them, start only after all rows * cols fetches.
C15_SequentialRowMajor ==
    /\ Len(requests) <= CoverageRows * CoverageCols
    /\ \A k \in 1 .. Len(requests) :
          <<requests[k][1], requests[k][2]>> = RowMajor(k)
    /\ \A k, m \in 1 .. Len(requests) :
          (requests[k][1] = requests[m][1] /\ requests[k][2] = requests[m][2]) => k = m
    /\ Len(Gathered) = Len(requests)
    /\ \A k \in 1 .. Len(requests) : Gathered[k] = requests[k][3]
    /\ \A i \in 1 .. Len(tiles_grid) :
          /\ Len(tiles_grid[i]) = CoverageCols
          /\ \A j \in 1 .. CoverageCols :
                LET k == (i - 1) * CoverageCols + j
                IN  /\ tiles_grid[i][j] = requests[k][3]
                    /\ requests[k][1] = coverage.row_start + i - 1
                    /\ requests[k][2] = coverage.col_start + j - 1
    /\ pc = "fetch" =>
          /\ Len(requests) < CoverageRows * CoverageCols
          /\ <<row, col>> = RowMajor(Len(requests) + 1)
    /\ (pc \in {"check", "stitch", "title", "legend", "save"} \/ performed # {}) =>
          /\ Len(requests) = CoverageRows * CoverageCols
          /\ Len(tiles_grid) = CoverageRows
          /\ tile_row = <<>>

\* A run over two rows and two columns is about to stitch: the second and
\* the third tile failed, the first and the last arrived.
C15_Witness ==
    /\ pc = "stitch"
    /\ CoverageRows = 2 /\ CoverageCols = 2
    /\ Len(requests) = 4
    /\ requests[1][3].present /\ ~requests[2][3].present
    /\ ~requests[3][3].present /\ requests[4][3].present
    /\ tiles_grid[2][2].present /\ ~tiles_grid[1][2].present

\* The pairs of the stop list whose offsets hold the ratio y / h.
PairsHolding(colors, y, h) ==
    { i \in 1 .. Len(colors) - 1 :
         /\ WholeOffset(colors[i]) * h <= 100 * y
         /\ 100 * y <= WholeOffset(colors[i + 1]) * h }

LeastOf(S) == CHOOSE i \in S : \A j \in S : i <= j

\* The row was painted from the pair (a, b), the i-th: with the colour of a
\* when the pair's offsets are equal (blend = 0), and else with the pair's
\* interpolation, each channel one unit off at most.
PaintedFromPair(painted, i, a, b, y, h) ==
    /\ painted.painted
    /\ painted.pair = i
    /\ IF WholeOffset(a) = WholeOffset(b)
       THEN painted.rgb = a[2]
       ELSE \A k \in 1 .. 3 :
               AbsVal(painted.rgb[k] * InterpDen(a, b, h) - InterpNum(a, b, k, y, h))
                   <= InterpDen(a, b, h)

\* C16: a row whose ratio lies within more than one consecutive stop pair
\* (at a shared boundary, or with duplicated offsets) is painted from the
\* first such pair in list order, and no later pair repaints it; when that
\* pair is degenerate (its offsets are equal) the row is painted with blend
\* 0, the colour of the pair's first stop, and is not left unpainted.
C16_FirstPairWins ==
    pc = "render" =>
        \A y \in 0 .. Len(painted_rows) - 1 :
            LET colors == legend.img.colors
                h == legend.img.bar_height
                holding == PairsHolding(colors, y, h)
                first == LeastOf(holding)
            IN  holding # {} =>
                    PaintedFromPair(painted_rows[y + 1], first, colors[first],
                                    colors[first + 1], y, h)

\* A row at ratio 0.5 of the stop list blue 50, red 50, white 100 has been
\* painted: the degenerate pair and the pair after it both hold the ratio,
\* and the row is blue.
C16_Witness ==
    /\ pc = "render"
    /\ \E y \in 0 .. Len(painted_rows) - 1 :
          /\ PairsHolding(legend.img.colors, y, legend.img.bar_height) = {1, 2}
          /\ WholeOffset(legend.img.colors[1]) = WholeOffset(legend.img.colors[2])
          /\ legend.img.colors[1][2] # legend.img.colors[2][2]
          /\ painted_rows[y + 1].painted
          /\ painted_rows[y + 1].rgb = legend.img.colors[1][2]

\* The height of the image handed to the legend step or to save: the grid
\* raster's, and the banner's on top of it when a title is requested.
TitledHeight == stitched.height + (IF with_title THEN TitleHeight ELSE 0)

\* The pixel (sx, sy) of the source pasted as kind.
SourcePixel(kind, sx, sy) ==
    [kind |-> kind, row |-> -1, col |-> -1, sx |-> sx, sy |-> sy]

\* C17: the final image has the grid's height plus 60 when a title banner
\* is requested and the grid's height otherwise, with the grid raster
\* placed directly below the banner; when a legend panel is present the
\* canvas is imageWidth + legendPanelWidth + 20 wide, the panel is as high
\* as the (possibly title-augmented) image and is pasted at x = imageWidth
\* + 20, y = 0, inside the canvas; without a panel the width is unchanged.
C17_Layout ==
    /\ (stitched.ok /\ ~with_title) => "title" \notin performed
    /\ (stitched.ok /\ with_title /\ pc \in {"legend", "save"}) => "title" \in performed
    /\ ("title" \in performed /\ "legend" \notin performed) =>
          /\ final_image.width = stitched.width
          /\ final_image.height = stitched.height + TitleHeight
          /\ PixelAt(final_image, 0, TitleHeight - 1) = Background
          /\ PixelAt(final_image, 0, TitleHeight) = SourcePixel("map", 0, 0)
          /\ PixelAt(final_image, stitched.width - 1, final_image.height - 1)
                = SourcePixel("map", stitched.width - 1, stitched.height - 1)
    /\ (stitched.ok /\ performed \cap {"title", "legend"} = {}) =>
          final_image = stitched
    /\ ("legend" \in performed /\ legend.img.ok) =>
          /\ legend.img.height = TitledHeight
          /\ final_image.width = stitched.width + legend.img.width + LegendPadding
          /\ final_image.height = TitledHeight
          /\ PixelAt(final_image, stitched.width + LegendPadding, 0)
                = SourcePixel("panel", 0, 0)
          /\ PixelAt(final_image, stitched.width + LegendPadding - 1, 0) = Background
          /\ PixelAt(final_image, final_image.width - 1, final_image.height - 1)
                = SourcePixel("panel", legend.img.width - 1, legend.img.height - 1)
          /\ PixelAt(final_image, stitched.width - 1, TitledHeight - 1)
                = SourcePixel("map", stitched.width - 1, TitledHeight - 1)
    /\ ("legend" \in performed /\ ~legend.img.ok) =>
          /\ final_image.width = stitched.width
          /\ final_image.height = TitledHeight
    /\ ("save" \in performed /\ output_file.ok) =>
          /\ output_file = final_image
          /\ output_file.height = TitledHeight
          /\ ~with_legend => output_file.width = stitched.width
    /\ result = "True" => "save" \in performed /\ output_file.ok

\* A titled map of two rows with its legend panel has been saved.
C17_Witness ==
    /\ pc = "exited"
    /\ result = "True"
    /\ with_title
    /\ legend.img.ok
    /\ stitched.height = 2 * TileSize
    /\ output_file.height = 2 * TileSize + TitleHeight
    /\ output_file.width = stitched.width + TotalWidth(BarWidth) + LegendPadding

\* C18: an interrupt at any point of the run (during a tile fetch, the
\* legend fetch, stitching, saving or the reporting after the save) ends
\* the run with a non-zero exit and leaves no output file behind:
\* whenever the run has ended as interrupted, no output has been written.
C18_InterruptLeavesNoOutput ==
    result = "interrupted" =>
        /\ pc = "exited"
        /\ exit_code # 0
        /\ output_file = NoImage

\* C18 for the interrupts that arrive before final_image.save has run.
C18_InterruptBeforeSaveLeavesNoOutput ==
    (result = "interrupted" /\ "save" \notin performed) =>
        /\ pc = "exited"
        /\ exit_code = 1
        /\ output_file = NoImage

\* C19: parse_svg_legend yields no legend for any well-formed document in
\* which the root's width or height is no integer literal, or the offset of
\* an accepted stop or the y of a text element is no number, also when a
\* target height is supplied and every other stop and label is valid: the
\* renderer is not called and the whole legend is discarded, not only the
\* offending element.
C19_BadNumberDiscardsLegend ==
    (pc = "parsed" /\ svg_data.doc.wellformed /\ ~NumbersParse) =>
        /\ ~legend.called
        /\ ~legend.img.ok
        /\ legend.colors = <<>> /\ legend.labels = <<>>
        /\ download_legend(svg_data, legend_height, program, pillow_strict) = NoLegend

\* With a target height supplied, a document with the example's stops, the
\* example's first label and a label whose y is no number has been parsed.
C19_Witness ==
    /\ pc = "parsed"
    /\ legend_height # 0
    /\ svg_data.doc.wellformed
    /\ svg_data.doc.stops = ExampleStops
    /\ svg_data.doc.texts = << ExampleTexts[1], BadYText >>
    /\ legend = NoLegend

====
